---- MODULE Spec2Model ----
(***************************************************************************)
(* Offline posture analysis (src/src/OfflinePostureAnalyzer.jsx), the      *)
(* remote posture analysis and the note consumers that share               *)
(* window.lastPostureAnalysis (src/unnamed/part_001).                      *)
(*                                                                         *)
(* Numbers.  Coordinates are integers in units of 1/200 of the image; the  *)
(* detector's coordinates are even, so that every midpoint is exact.       *)
(* Angles are integers in micro-degrees; a reported value (toFixed(1)) is  *)
(* an integer in tenths of a degree.  z is in the same units as x and y,   *)
(* visibility is in percent.                                                *)
(***************************************************************************)
EXTENDS Integers, Sequences, FiniteSets, TLC

\* JavaScript null / undefined
NULL == [kind |-> "null"]

\* ------------------------------------------------------------------------
\* Thresholds and landmark indices
\* ------------------------------------------------------------------------

FRONTAL_THRESHOLDS ==
    [HEAD_TILT       |-> [good |-> 5,  moderate |-> 10],
     SHOULDER_LEVEL  |-> [good |-> 3,  moderate |-> 7],
     HIP_LEVEL       |-> [good |-> 3,  moderate |-> 7],
     SPINE_ALIGNMENT |-> [good |-> 5,  moderate |-> 12]]

LATERAL_THRESHOLDS ==
    [HEAD_FORWARD   |-> [good |-> 10, moderate |-> 20],
     SHOULDER_ROUND |-> [good |-> 15, moderate |-> 25],
     PELVIC_TILT    |-> [good |-> 10, moderate |-> 18],
     SPINE_CURVE    |-> [good |-> 12, moderate |-> 20]]

LANDMARKS ==
    [NOSE |-> 0, LEFT_EYE |-> 2, RIGHT_EYE |-> 5, LEFT_EAR |-> 7, RIGHT_EAR |-> 8,
     LEFT_SHOULDER |-> 11, RIGHT_SHOULDER |-> 12, LEFT_ELBOW |-> 13,
     RIGHT_ELBOW |-> 14, LEFT_WRIST |-> 15, RIGHT_WRIST |-> 16,
     LEFT_HIP |-> 23, RIGHT_HIP |-> 24, LEFT_KNEE |-> 25, RIGHT_KNEE |-> 26,
     LEFT_ANKLE |-> 27, RIGHT_ANKLE |-> 28]

POSE_CONNECTIONS ==
    << <<LANDMARKS.LEFT_SHOULDER, LANDMARKS.RIGHT_SHOULDER>>,
       <<LANDMARKS.LEFT_SHOULDER, LANDMARKS.LEFT_ELBOW>>,
       <<LANDMARKS.LEFT_ELBOW, LANDMARKS.LEFT_WRIST>>,
       <<LANDMARKS.RIGHT_SHOULDER, LANDMARKS.RIGHT_ELBOW>>,
       <<LANDMARKS.RIGHT_ELBOW, LANDMARKS.RIGHT_WRIST>>,
       <<LANDMARKS.LEFT_SHOULDER, LANDMARKS.LEFT_HIP>>,
       <<LANDMARKS.RIGHT_SHOULDER, LANDMARKS.RIGHT_HIP>>,
       <<LANDMARKS.LEFT_HIP, LANDMARKS.RIGHT_HIP>>,
       <<LANDMARKS.LEFT_HIP, LANDMARKS.LEFT_KNEE>>,
       <<LANDMARKS.LEFT_KNEE, LANDMARKS.LEFT_ANKLE>>,
       <<LANDMARKS.RIGHT_HIP, LANDMARKS.RIGHT_KNEE>>,
       <<LANDMARKS.RIGHT_KNEE, LANDMARKS.RIGHT_ANKLE>> >>

\* The number of landmarks of a complete pose (landmarks.length < 33).
FullPose == 33

\* ------------------------------------------------------------------------
\* Numbers
\* ------------------------------------------------------------------------

\* Units of x and y in one image width or height.
UnitsPerImage == 2 * 100

\* Micro-degrees in one degree.
MicroPerDeg == 1000 * 1000

Abs(n) == IF n < 0 THEN -n ELSE n

RECURSIVE GCD(_, _)
GCD(a, b) == IF b = 0 THEN a ELSE GCD(b, a % b)

\* Math.atan2(a, b) * (180 / Math.PI) for 0 <= a, b <= 40, rounded to the
\* micro-degree: AtanQ1[a + 1][b + 1].  (No entry lies within a micro-degree
\* of a threshold or of a rounding boundary of toFixed(1), except exactly.)
AtanQ1 ==
<<
    <<0, 0, 0, 0, 0, 0, 0, 0, 0, 0, 0, 0, 0, 0, 0, 0, 0, 0, 0, 0, 0, 0, 0, 0, 0, 0, 0, 0, 0, 0, 0, 0, 0, 0, 0, 0, 0, 0, 0, 0, 0>>,
    <<90000000, 45000000, 26565051, 18434949, 14036243, 11309932, 9462322, 8130102, 7125016, 6340192, 5710593, 5194429, 4763642, 4398705, 4085617, 3814075, 3576334, 3366461, 3179830, 3012788, 2862405, 2726311, 2602562, 2489553, 2385944, 2290610, 2202598, 2121096, 2045408, 1974934, 1909152, 1847610, 1789911, 1735705, 1684684, 1636577, 1591140, 1548158, 1507436, 1468801, 1432096>>,
    <<90000000, 63434949, 45000000, 33690068, 26565051, 21801409, 18434949, 15945396, 14036243, 12528808, 11309932, 10304846, 9462322, 8746162, 8130102, 7594643, 7125016, 6709837, 6340192, 6009006, 5710593, 5440332, 5194429, 4969741, 4763642, 4573921, 4398705, 4236395, 4085617, 3945186, 3814075, 3691386, 3576334, 3468229, 3366461, 3270488, 3179830, 3094058, 3012788, 2935673, 2862405>>,
    <<90000000, 71565051, 56309932, 45000000, 36869898, 30963757, 26565051, 23198591, 20556045, 18434949, 16699244, 15255119, 14036243, 12994617, 12094757, 11309932, 10619655, 10007980, 9462322, 8972627, 8530766, 8130102, 7765166, 7431408, 7125016, 6842773, 6581945, 6340192, 6115504, 5906141, 5710593, 5527540, 5355825, 5194429, 5042451, 4899092, 4763642, 4635463, 4513988, 4398705, 4289153>>,
    <<90000000, 75963757, 63434949, 53130102, 45000000, 38659808, 33690068, 29744881, 26565051, 23962489, 21801409, 19983107, 18434949, 17102729, 15945396, 14931417, 14036243, 13240520, 12528808, 11888658, 11309932, 10784298, 10304846, 9865807, 9462322, 9090277, 8746162, 8426969, 8130102, 7853313, 7594643, 7352379, 7125016, 6911227, 6709837, 6519802, 6340192, 6170175, 6009006, 5856014, 5710593>>,
    <<90000000, 78690068, 68198591, 59036243, 51340192, 45000000, 39805571, 35537678, 32005383, 29054604, 26565051, 24443955, 22619865, 21037511, 19653824, 18434949, 17354025, 16389540, 15524111, 14743563, 14036243, 13392498, 12804266, 12264774, 11768289, 11309932, 10885527, 10491477, 10124672, 9782407, 9462322, 9162347, 8880659, 8615648, 8365886, 8130102, 7907163, 7696052, 7495858, 7305760, 7125016>>,
    <<90000000, 80537678, 71565051, 63434949, 56309932, 50194429, 45000000, 40601295, 36869898, 33690068, 30963757, 28610460, 26565051, 24775141, 23198591, 21801409, 20556045, 19440035, 18434949, 17525568, 16699244, 15945396, 15255119, 14620874, 14036243, 13495733, 12994617, 12528808, 12094757, 11689369, 11309932, 10954063, 10619655, 10304846, 10007980, 9727579, 9462322, 9211027, 8972627, 8746162, 8530766>>,
    <<90000000, 81869898, 74054604, 66801409, 60255119, 54462322, 49398705, 45000000, 41185925, 37874984, 34992020, 32471192, 30256437, 28300756, 26565051, 25016893, 23629378, 22380135, 21250506, 20224859, 19290046, 18434949, 17650124, 16927513, 16260205, 15642246, 15068488, 14534455, 14036243, 13570434, 13134022, 12724356, 12339087, 11976132, 11633634, 11309932, 11003541, 10713123, 10437475, 10175511, 9926246>>,
    <<90000000, 82874984, 75963757, 69443955, 63434949, 57994617, 53130102, 48814075, 45000000, 41633539, 38659808, 36027373, 33690068, 31607502, 29744881, 28072487, 26565051, 25201124, 23962489, 22833654, 21801409, 20854458, 19983107, 19179008, 18434949, 17744672, 17102729, 16504361, 15945396, 15422161, 14931417, 14470294, 14036243, 13626995, 13240520, 12875002, 12528808, 12200469, 11888658, 11592175, 11309932>>,
    <<90000000, 83659808, 77471192, 71565051, 66037511, 60945396, 56309932, 52125016, 48366461, 45000000, 41987212, 39289407, 36869898, 34695154, 32735226, 30963757, 29357754, 27897271, 26565051, 25346176, 24227745, 23198591, 22249024, 21370622, 20556045, 19798876, 19093492, 18434949, 17818889, 17241459, 16699244, 16189206, 15708638, 15255119, 14826480, 14420773, 14036243, 13671307, 13324531, 12994617, 12680383>>,
    <<90000000, 84289407, 78690068, 73300756, 68198591, 63434949, 59036243, 55007980, 51340192, 48012788, 45000000, 42273689, 39805571, 37568592, 35537678, 33690068, 32005383, 30465545, 29054604, 27758541, 26565051, 25463345, 24443955, 23498566, 22619865, 21801409, 21037511, 20323137, 19653824, 19025606, 18434949, 17878697, 17354025, 16858399, 16389540, 15945396, 15524111, 15124007, 14743563, 14381395, 14036243>>,
    <<90000000, 84805571, 79695154, 74744881, 70016893, 65556045, 61389540, 57528808, 53972627, 50710593, 47726311, 45000000, 42510447, 40236358, 38157227, 36253838, 34508523, 32905243, 31429566, 30068583, 28810794, 27645975, 26565051, 25559965, 24623565, 23749494, 22932100, 22166346, 21447736, 20772255, 20136303, 19536655, 18970408, 18434949, 17927920, 17447188, 16990823, 16557071, 16144339, 15751174, 15376251>>,
    <<90000000, 85236358, 80537678, 75963757, 71565051, 67380135, 63434949, 59743563, 56309932, 53130102, 50194429, 47489553, 45000000, 42709390, 40601295, 38659808, 36869898, 35217593, 33690068, 32275644, 30963757, 29744881, 28610460, 27552812, 26565051, 25641006, 24775141, 23962489, 23198591, 22479434, 21801409, 21161260, 20556045, 19983107, 19440035, 18924644, 18434949, 17969140, 17525568, 17102729, 16699244>>,
    <<90000000, 85601295, 81253838, 77005383, 72897271, 68962489, 65224859, 61699244, 58392498, 55304846, 52431408, 49763642, 47290610, 45000000, 42878904, 40914383, 39093859, 37405357, 35837653, 34380345, 33023868, 31759480, 30579227, 29475889, 28442929, 27474432, 26565051, 25709954, 24904769, 24145542, 23428693, 22750976, 22109448, 21501434, 20924502, 20376435, 19855214, 19358994, 18886087, 18434949, 18004162>>,
    <<90000000, 85914383, 81869898, 77905243, 74054604, 70346176, 66801409, 63434949, 60255119, 57264774, 54462322, 51842773, 49398705, 47121096, 45000000, 43025066, 41185925, 39472460, 37874984, 36384352, 34992020, 33690068, 32471192, 31328693, 30256437, 29248826, 28300756, 27407575, 26565051, 25769328, 25016893, 24304549, 23629378, 22988717, 22380135, 21801409, 21250506, 20725559, 20224859, 19746837, 19290046>>,
    <<90000000, 86185925, 82405357, 78690068, 75068583, 71565051, 68198591, 64983107, 61927513, 59036243, 56309932, 53746162, 51340192, 49085617, 46974934, 45000000, 43152390, 41423666, 39805571, 38290163, 36869898, 35537678, 34286877, 33111342, 32005383, 30963757, 29981639, 29054604, 28178590, 27349876, 26565051, 25820992, 25114835, 24443955, 23805944, 23198591, 22619865, 22067900, 21540976, 21037511, 20556045>>,
    <<90000000, 86423666, 82874984, 79380345, 75963757, 72645975, 69443955, 66370622, 63434949, 60642246, 57994617, 55491477, 53130102, 50906141, 48814075, 46847610, 45000000, 43264295, 41633539, 40100908, 38659808, 37303948, 36027373, 34824489, 33690068, 32619243, 31607502, 30650668, 29744881, 28886582, 28072487, 27299572, 26565051, 25866357, 25201124, 24567171, 23962489, 23385221, 22833654, 22306205, 21801409>>,
    <<90000000, 86633539, 83290163, 79992020, 76759480, 73610460, 70559965, 67619865, 64798876, 62102729, 59534455, 57094757, 54782407, 52594643, 50527540, 48576334, 46735705, 45000000, 43363423, 41820170, 40364537, 38990994, 37694240, 36469234, 35311213, 34215702, 33178512, 32195734, 31263732, 30379126, 29538782, 28739795, 27979474, 27255328, 26565051, 25906508, 25277722, 24676863, 24102235, 23552264, 23025492>>,
    <<90000000, 86820170, 83659808, 80537678, 77471192, 74475889, 71565051, 68749494, 66037511, 63434949, 60945396, 58570434, 56309932, 54162347, 52125016, 50194429, 48366461, 46636577, 45000000, 43451842, 41987212, 40601295, 39289407, 38047043, 36869898, 35753887, 34695154, 33690068, 32735226, 31827447, 30963757, 30141386, 29357754, 28610460, 27897271, 27216112, 26565051, 25942295, 25346176, 24775141, 24227745>>,
    <<90000000, 86987212, 83990994, 81027373, 78111342, 75256437, 72474432, 69775141, 67166346, 64653824, 62241459, 59931417, 57724356, 55619655, 53615648, 51709837, 49899092, 48179830, 46548158, 45000000, 43531199, 42137595, 40815084, 39559668, 38367485, 37234834, 36158185, 35134193, 34159695, 33231711, 32347443, 31504267, 30699723, 29931512, 29197486, 28495639, 27824096, 27181111, 26565051, 25974394, 25407718>>,
    <<90000000, 87137595, 84289407, 81469234, 78690068, 75963757, 73300756, 70709954, 68198591, 65772255, 63434949, 61189206, 59036243, 56976132, 55007980, 53130102, 51340192, 49635463, 48012788, 46468801, 45000000, 43602819, 42273689, 41009087, 39805571, 38659808, 37568592, 36528855, 35537678, 34592289, 33690068, 32828542, 32005383, 31218403, 30465545, 29744881, 29054604, 28393019, 27758541, 27149682, 26565051>>,
    <<90000000, 87273689, 84559668, 81869898, 79215702, 76607502, 74054604, 71565051, 69145542, 66801409, 64536655, 62354025, 60255119, 58240520, 56309932, 54462322, 52696052, 51009006, 49398705, 47862405, 46397181, 45000000, 43667780, 42397438, 41185925, 40030259, 38927544, 37874984, 36869898, 35909723, 34992020, 34114473, 33274888, 32471192, 31701430, 30963757, 30256437, 29577839, 28926426, 28300756, 27699473>>,
    <<90000000, 87397438, 84805571, 82234834, 79695154, 77195734, 74744881, 72349876, 70016893, 67750976, 65556045, 63434949, 61389540, 59420773, 57528808, 55713123, 53972627, 52305760, 50710593, 49184916, 47726311, 46332220, 45000000, 43726970, 42510447, 41347777, 40236358, 39173658, 38157227, 37184706, 36253838, 35362462, 34508523, 33690068, 32905243, 32152295, 31429566, 30735488, 30068583, 29427456, 28810794>>,
    <<90000000, 87510447, 85030259, 82568592, 80134193, 77735226, 75379126, 73072487, 70820992, 68629378, 66501434, 64440035, 62447188, 60524111, 58671307, 56888658, 55175511, 53530766, 51952957, 50440332, 48990913, 47602562, 46273030, 45000000, 43781125, 42614056, 41496468, 40426079, 39400661, 38418055, 37476180, 36573031, 35706691, 34875328, 34077195, 33310631, 32574057, 31865978, 31184975, 30529706, 29898902>>,
    <<90000000, 87614056, 85236358, 82874984, 80537678, 78231711, 75963757, 73739795, 71565051, 69443955, 67380135, 65376435, 63434949, 61557071, 59743563, 57994617, 56309932, 54688787, 53130102, 51632515, 50194429, 48814075, 47489553, 46218875, 45000000, 43830861, 42709390, 41633539, 40601295, 39610688, 38659808, 37746805, 36869898, 36027373, 35217593, 34438989, 33690068, 32969404, 32275644, 31607502, 30963757>>,
    <<90000000, 87709390, 85426079, 83157227, 80909723, 78690068, 76504267, 74357754, 72255328, 70201124, 68198591, 66250506, 64358994, 62525568, 60751174, 59036243, 57380757, 55784298, 54246113, 52765166, 51340192, 49969741, 48652223, 47385944, 46169139, 45000000, 43876697, 42797402, 41760300, 40763605, 39805571, 38884496, 37998732, 37146687, 36326826, 35537678, 34777831, 34045937, 33340707, 32660913, 32005383>>,
    <<90000000, 87797402, 85601295, 83418055, 81253838, 79114473, 77005383, 74931512, 72897271, 70906508, 68962489, 67067900, 65224859, 63434949, 61699244, 60018361, 58392498, 56821488, 55304846, 53841815, 52431408, 51072456, 49763642, 48503532, 47290610, 46123303, 45000000, 43919076, 42878904, 41877870, 40914383, 39986886, 39093859, 38233825, 37405357, 36607075, 35837653, 35095817, 34380345, 33690068, 33023868>>,
    <<90000000, 87878904, 85763605, 83659808, 81573031, 79508523, 77471192, 75465545, 73495639, 71565051, 69676863, 67833654, 66037511, 64290046, 62592425, 60945396, 59349332, 57804266, 56309932, 54865807, 53471145, 52125016, 50826342, 49573921, 48366461, 47202598, 46080924, 45000000, 43958373, 42954592, 41987212, 41054814, 40156000, 39289407, 38453709, 37647621, 36869898, 36119341, 35394796, 34695154, 34019350>>,
    <<90000000, 87954592, 85914383, 83884496, 81869898, 79875328, 77905243, 75963757, 74054604, 72181111, 70346176, 68552264, 66801409, 65095231, 63434949, 61821410, 60255119, 58736268, 57264774, 55840305, 54462322, 53130102, 51842773, 50599339, 49398705, 48239700, 47121096, 46041627, 45000000, 43994914, 43025066, 42089162, 41185925, 40314100, 39472460, 38659808, 37874984, 37116861, 36384352, 35676408, 34992020>>,
    <<90000000, 88025066, 86054814, 84093859, 82146687, 80217593, 78310631, 76429566, 74577839, 72758541, 70974394, 69227745, 67520566, 65854458, 64230672, 62650124, 61113418, 59620874, 58172553, 56768289, 55407711, 54090277, 52815294, 51581945, 50389312, 49236395, 48122130, 47045408, 46005086, 45000000, 44028978, 43090848, 42184443, 41308614, 40462227, 39644175, 38853374, 38088773, 37349349, 36634114, 35942112>>,
    <<90000000, 88090848, 86185925, 84289407, 82405357, 80537678, 78690068, 76865978, 75068583, 73300756, 71565051, 69863697, 68198591, 66571307, 64983107, 63434949, 61927513, 60461218, 59036243, 57652557, 56309932, 55007980, 53746162, 52523820, 51340192, 50194429, 49085617, 48012788, 46974934, 45971022, 45000000, 44060809, 43152390, 42273689, 41423666, 40601295, 39805571, 39035513, 38290163, 37568592, 36869898>>,
    <<90000000, 88152390, 86308614, 84472460, 82647621, 80837653, 79045937, 77275644, 75529706, 73810794, 72121303, 70463345, 68838740, 67249024, 65695451, 64179008, 62700428, 61260205, 59858614, 58495733, 57171458, 55885527, 54637538, 53426969, 52253195, 51115504, 50013114, 48945186, 47910838, 46909152, 45939191, 45000000, 44090620, 43210089, 42357455, 41531771, 40732107, 39957549, 39207204, 38480198, 37775684>>,
    <<90000000, 88210089, 86423666, 84644175, 82874984, 81119341, 79380345, 77660913, 75963757, 74291362, 72645975, 71029592, 69443955, 67890552, 66370622, 64885165, 63434949, 62020526, 60642246, 59300277, 57994617, 56725112, 55491477, 54293309, 53130102, 52001268, 50906141, 49844000, 48814075, 47815557, 46847610, 45909380, 45000000, 44118596, 43264295, 42436230, 41633539, 40855376, 40100908, 39369317, 38659808>>,
    <<90000000, 88264295, 86531771, 84805571, 83088773, 81384352, 79695154, 78023868, 76373005, 74744881, 73141601, 71565051, 70016893, 68498566, 67011283, 65556045, 64133643, 62744672, 61389540, 60068488, 58781597, 57528808, 56309932, 55124672, 53972627, 52853313, 51766175, 50710593, 49685900, 48691386, 47726311, 46789911, 45881404, 45000000, 44144903, 43315316, 42510447, 41729512, 40971736, 40236358, 39522631>>,
    <<90000000, 88315316, 86633539, 84957549, 83290163, 81634114, 79992020, 78366366, 76759480, 75173520, 73610460, 72072080, 70559965, 69075498, 67619865, 66194056, 64798876, 63434949, 62102729, 60802514, 59534455, 58298570, 57094757, 55922805, 54782407, 53673174, 52594643, 51546291, 50527540, 49537773, 48576334, 47642545, 46735705, 45855097, 45000000, 44169685, 43363423, 42580491, 41820170, 41081751, 40364537>>,
    <<90000000, 88363423, 86729512, 85100908, 83480198, 81869898, 80272421, 78690068, 77124998, 75579227, 74054604, 72552812, 71075356, 69623565, 68198591, 66801409, 65432829, 64093492, 62783888, 61504361, 60255119, 59036243, 57847705, 56689369, 55561011, 54462322, 53392925, 52352379, 51340192, 50355825, 49398705, 48468229, 47563770, 46684684, 45830315, 45000000, 44193071, 43408860, 42646703, 41905942, 41185925>>,
    <<90000000, 88408860, 86820170, 85236358, 83659808, 82092837, 80537678, 78996459, 77471192, 75963757, 74475889, 73009177, 71565051, 70144786, 68749494, 67380135, 66037511, 64722278, 63434949, 62175904, 60945396, 59743563, 58570434, 57425943, 56309932, 55222169, 54162347, 53130102, 52125016, 51146626, 50194429, 49267893, 48366461, 47489553, 46636577, 45806929, 45000000, 44215175, 43451842, 42709390, 41987212>>,
    <<90000000, 88451842, 86905942, 85364537, 83829825, 82303948, 80788973, 79286877, 77799531, 76328693, 74875993, 73442929, 72030860, 70641006, 69274441, 67932100, 66614779, 65323137, 64057705, 62818889, 61606981, 60422161, 59264512, 58134022, 57030596, 55954063, 54904183, 53880659, 52883139, 51911227, 50964487, 50042451, 49144624, 48270488, 47419509, 46591140, 45784825, 45000000, 44236102, 43492564, 42768825>>,
    <<90000000, 88492564, 86987212, 85486012, 83990994, 82504142, 81027373, 79562525, 78111342, 76675469, 75256437, 73855661, 72474432, 71113913, 69775141, 68459024, 67166346, 65897765, 64653824, 63434949, 62241459, 61073574, 59931417, 58815025, 57724356, 56659293, 55619655, 54605204, 53615648, 52650651, 51709837, 50792796, 49899092, 49028264, 48179830, 47353297, 46548158, 45763898, 45000000, 44255941, 43531199>>,
    <<90000000, 88531199, 87064327, 85601295, 84143986, 82694240, 81253838, 79824489, 78407825, 77005383, 75618605, 74248826, 72897271, 71565051, 70253163, 68962489, 67693795, 66447736, 65224859, 64025606, 62850318, 61699244, 60572544, 59470294, 58392498, 57339087, 56309932, 55304846, 54323592, 53365886, 52431408, 51519802, 50630683, 49763642, 48918249, 48094058, 47290610, 46507436, 45744059, 45000000, 44274776>>,
    <<90000000, 88567904, 87137595, 85710847, 84289407, 82874984, 81469234, 80073754, 78690068, 77319617, 75963757, 74623749, 73300756, 71995838, 70709954, 69443955, 68198591, 66974508, 65772255, 64592282, 63434949, 62300527, 61189206, 60101098, 59036243, 57994617, 56976132, 55980650, 55007980, 54057888, 53130102, 52224316, 51340192, 50477369, 49635463, 48814075, 48012788, 47231175, 46468801, 45725224, 45000000>>
>>


\* AbsAtan2Deg with the direction of a zero-length segment taken as vertical.
AbsAtan2DegOfNothing(dy, dx) ==
    LET ay == Abs(dy)
        ax == Abs(dx)
        g  == GCD(ay, ax)
    IN  IF g = 0 THEN 90 * MicroPerDeg
        ELSE LET q == AtanQ1[(ay \div g) + 1][(ax \div g) + 1]
             IN  IF dx >= 0 THEN q ELSE 180 * MicroPerDeg - q

\* |Math.atan2(dy, dx) * (180 / Math.PI)| in micro-degrees.  atan2 depends on
\* the direction of (dx, dy) alone, so the table is read at the reduced pair;
\* Math.atan2(0, 0) is 0.
AbsAtan2Deg(dy, dx) ==
    LET ay == Abs(dy)
        ax == Abs(dx)
        g  == GCD(ay, ax)
    IN  IF g = 0 THEN 0
        ELSE LET q == AtanQ1[(ay \div g) + 1][(ax \div g) + 1]
             IN  IF dx >= 0 THEN q ELSE 180 * MicroPerDeg - q

\* parseFloat(v.toFixed(1)): micro-degrees to tenths of a degree, nearest, the
\* larger one on a tie.
toFixed1(v) == (v + 50000) \div 100000


\* Math.floor(n / d) in place of Math.round(n / d).
MathRoundDown(n, d) == n \div d

\* Math.round(n / d) for n >= 0, d > 0: nearest integer, halves up.
MathRound(n, d) == (2 * n + d) \div (2 * d)

\* p.z || 0
zOr0(p) == IF p.hasZ THEN p.z ELSE 0

\* ------------------------------------------------------------------------
\* Utility functions
\* ------------------------------------------------------------------------

getMidpoint(p1, p2) ==
    [x |-> (p1.x + p2.x) \div 2,
     y |-> (p1.y + p2.y) \div 2,
     z |-> (zOr0(p1) + zOr0(p2)) \div 2,
     hasZ |-> TRUE]

horizontalTilt(p1, p2) ==
    LET dx == p2.x - p1.x
        dy == p2.y - p1.y
    IN  AbsAtan2Deg(dy, dx)

verticalOffset(topPoint, bottomPoint) ==
    LET dx == topPoint.x - bottomPoint.x
        dy == Abs(topPoint.y - bottomPoint.y)
    IN  AbsAtan2Deg(Abs(dx), dy)

\* landmarks[i] and landmarks.length of a landmark array
\* [kind |-> "landmarks", pts |-> [0 .. n-1 -> point]]
At(landmarks, i) == landmarks.pts[i]

LengthOf(landmarks) == Cardinality(DOMAIN landmarks.pts)

\* detectViewType with a shoulder width of exactly 0.08 taken as frontal.
detectViewTypeGe(landmarks) ==
    LET leftShoulder  == At(landmarks, LANDMARKS.LEFT_SHOULDER)
        rightShoulder == At(landmarks, LANDMARKS.RIGHT_SHOULDER)
        shoulderWidth == Abs(leftShoulder.x - rightShoulder.x)
    IN  IF shoulderWidth * 100 >= 8 * UnitsPerImage THEN "frontal" ELSE "lateral"


\* detectViewType that also asks for the depth ratio to be below 1.
detectViewTypeRatio(landmarks) ==
    LET leftShoulder  == At(landmarks, LANDMARKS.LEFT_SHOULDER)
        rightShoulder == At(landmarks, LANDMARKS.RIGHT_SHOULDER)
        shoulderDepthDiff == Abs(zOr0(leftShoulder) - zOr0(rightShoulder))
        shoulderWidth == Abs(leftShoulder.x - rightShoulder.x)
        ratio == (1000 * 1000 * shoulderDepthDiff)
                     \div (1000 * shoulderWidth + UnitsPerImage)
    IN  IF shoulderWidth * 100 > 8 * UnitsPerImage /\ ratio < 1000
        THEN "frontal" ELSE "lateral"

\* shoulderWidth > 0.08; ratio = shoulderDepthDiff / (shoulderWidth + 0.001)
\* is computed (here 1000 times it, rounded down) and not used.
detectViewType(landmarks) ==
    LET leftShoulder  == At(landmarks, LANDMARKS.LEFT_SHOULDER)
        rightShoulder == At(landmarks, LANDMARKS.RIGHT_SHOULDER)
        shoulderDepthDiff == Abs(zOr0(leftShoulder) - zOr0(rightShoulder))
        shoulderWidth == Abs(leftShoulder.x - rightShoulder.x)
        ratio == (1000 * 1000 * shoulderDepthDiff)
                     \div (1000 * shoulderWidth + UnitsPerImage)
    IN  IF shoulderWidth * 100 > 8 * UnitsPerImage THEN "frontal" ELSE "lateral"

\* getStatus with a value on a threshold taken into the band above.
getStatusLt(value, thresholds) ==
    IF value < thresholds.good * MicroPerDeg THEN "good"
    ELSE IF value < thresholds.moderate * MicroPerDeg THEN "moderate"
    ELSE "poor"

\* value in micro-degrees, thresholds in degrees
getStatus(value, thresholds) ==
    IF value <= thresholds.good * MicroPerDeg THEN "good"
    ELSE IF value <= thresholds.moderate * MicroPerDeg THEN "moderate"
    ELSE "poor"

\* ------------------------------------------------------------------------
\* Metrics and score
\* ------------------------------------------------------------------------

\* One entry of the metrics object, with the status taken from the value as
\* reported (one decimal) instead of the angle as measured.
MetricRounded(key, angle, thresholds, label, texts) ==
    [key |-> key,
     value |-> toFixed1(angle),
     status |-> getStatus(toFixed1(angle) * 100000, thresholds),
     label |-> label,
     description |->
        IF angle > thresholds.moderate * MicroPerDeg THEN texts.poor
        ELSE IF angle > thresholds.good * MicroPerDeg THEN texts.moderate
        ELSE texts.good,
     recommendation |->
        IF angle > thresholds.good * MicroPerDeg THEN texts.correct
        ELSE texts.maintain]


\* Metric with the texts of the band above for an angle on a threshold.
MetricDescribedGe(key, angle, thresholds, label, texts) ==
    [key |-> key,
     value |-> toFixed1(angle),
     status |-> getStatus(angle, thresholds),
     label |-> label,
     description |->
        IF angle >= thresholds.moderate * MicroPerDeg THEN texts.poor
        ELSE IF angle >= thresholds.good * MicroPerDeg THEN texts.moderate
        ELSE texts.good,
     recommendation |->
        IF angle >= thresholds.good * MicroPerDeg THEN texts.correct
        ELSE texts.maintain]

\* One entry of the metrics object: value, status, label, description and
\* recommendation of the angle `angle` (micro-degrees).
Metric(key, angle, thresholds, label, texts) ==
    [key |-> key,
     value |-> toFixed1(angle),
     status |-> getStatus(angle, thresholds),
     label |-> label,
     description |->
        IF angle > thresholds.moderate * MicroPerDeg THEN texts.poor
        ELSE IF angle > thresholds.good * MicroPerDeg THEN texts.moderate
        ELSE texts.good,
     recommendation |->
        IF angle > thresholds.good * MicroPerDeg THEN texts.correct
        ELSE texts.maintain]


\* statusScore with 60 for every status.
statusScoreFlat(status) == 60

\* m.status === 'good' ? 100 : m.status === 'moderate' ? 60 : 30
statusScore(status) ==
    IF status = "good" THEN 100 ELSE IF status = "moderate" THEN 60 ELSE 30

RECURSIVE SumScores(_, _)
SumScores(metrics, n) ==
    IF n = 0 THEN 0 ELSE SumScores(metrics, n - 1) + statusScore(metrics[n].status)


\* overallScoreOf without the division by the number of metrics.
overallScoreSum(metrics) == SumScores(metrics, Len(metrics))

\* Math.round(scores.reduce((a, b) => a + b, 0) / scores.length)
overallScoreOf(metrics) ==
    MathRound(SumScores(metrics, Len(metrics)), Len(metrics))

\* overallStatusOf with the scores 80 and 50 taken into the band below.
overallStatusGt(overallScore) ==
    IF overallScore > 80 THEN "good"
    ELSE IF overallScore > 50 THEN "moderate" ELSE "poor"

\* overallScore >= 80 ? 'good' : overallScore >= 50 ? 'moderate' : 'poor'
overallStatusOf(overallScore) ==
    IF overallScore >= 80 THEN "good"
    ELSE IF overallScore >= 50 THEN "moderate" ELSE "poor"

\* The four angles of the frontal view, in micro-degrees.
frontalAngles(landmarks) ==
    LET leftEar       == At(landmarks, LANDMARKS.LEFT_EAR)
        rightEar      == At(landmarks, LANDMARKS.RIGHT_EAR)
        leftShoulder  == At(landmarks, LANDMARKS.LEFT_SHOULDER)
        rightShoulder == At(landmarks, LANDMARKS.RIGHT_SHOULDER)
        leftHip       == At(landmarks, LANDMARKS.LEFT_HIP)
        rightHip      == At(landmarks, LANDMARKS.RIGHT_HIP)
        midShoulder   == getMidpoint(leftShoulder, rightShoulder)
        midHip        == getMidpoint(leftHip, rightHip)
    IN  [headTilt       |-> horizontalTilt(leftEar, rightEar),
         shoulderLevel  |-> horizontalTilt(leftShoulder, rightShoulder),
         hipLevel       |-> horizontalTilt(leftHip, rightHip),
         spineAlignment |-> verticalOffset(midShoulder, midHip)]


\* lateralAngles with the spine curve measured from the hips to the knees.
lateralAnglesSpineFromKnee(landmarks) ==
    LET leftEar       == At(landmarks, LANDMARKS.LEFT_EAR)
        rightEar      == At(landmarks, LANDMARKS.RIGHT_EAR)
        leftShoulder  == At(landmarks, LANDMARKS.LEFT_SHOULDER)
        rightShoulder == At(landmarks, LANDMARKS.RIGHT_SHOULDER)
        leftHip       == At(landmarks, LANDMARKS.LEFT_HIP)
        rightHip      == At(landmarks, LANDMARKS.RIGHT_HIP)
        midShoulder   == getMidpoint(leftShoulder, rightShoulder)
        midHip        == getMidpoint(leftHip, rightHip)
        midEar        == getMidpoint(leftEar, rightEar)
        leftKnee      == At(landmarks, LANDMARKS.LEFT_KNEE)
        rightKnee     == At(landmarks, LANDMARKS.RIGHT_KNEE)
        midKnee       == getMidpoint(leftKnee, rightKnee)
    IN  [headForward   |-> verticalOffset(midEar, midShoulder),
         shoulderRound |-> verticalOffset(midShoulder, midHip),
         pelvicTilt    |-> verticalOffset(midHip, midKnee),
         spineCurve    |-> verticalOffset(midHip, midKnee)]

\* The four angles of the lateral view, in micro-degrees.
lateralAngles(landmarks) ==
    LET leftEar       == At(landmarks, LANDMARKS.LEFT_EAR)
        rightEar      == At(landmarks, LANDMARKS.RIGHT_EAR)
        leftShoulder  == At(landmarks, LANDMARKS.LEFT_SHOULDER)
        rightShoulder == At(landmarks, LANDMARKS.RIGHT_SHOULDER)
        leftHip       == At(landmarks, LANDMARKS.LEFT_HIP)
        rightHip      == At(landmarks, LANDMARKS.RIGHT_HIP)
        midShoulder   == getMidpoint(leftShoulder, rightShoulder)
        midHip        == getMidpoint(leftHip, rightHip)
        midEar        == getMidpoint(leftEar, rightEar)
        leftKnee      == At(landmarks, LANDMARKS.LEFT_KNEE)
        rightKnee     == At(landmarks, LANDMARKS.RIGHT_KNEE)
        midKnee       == getMidpoint(leftKnee, rightKnee)
    IN  [headForward   |-> verticalOffset(midEar, midShoulder),
         shoulderRound |-> verticalOffset(midShoulder, midHip),
         pelvicTilt    |-> verticalOffset(midHip, midKnee),
         spineCurve    |-> verticalOffset(midShoulder, midHip)]

frontalMetrics(a) ==
    << Metric("headTilt", a.headTilt, FRONTAL_THRESHOLDS.HEAD_TILT, "Head Tilt",
          [poor     |-> "Significant head tilt detected - may indicate neck tension",
           moderate |-> "Slight head tilt noted",
           good     |-> "Head is well centered",
           correct  |-> "Neck stretches and posture awareness exercises",
           maintain |-> "Maintain current head positioning"]),
       Metric("shoulderLevel", a.shoulderLevel, FRONTAL_THRESHOLDS.SHOULDER_LEVEL,
          "Shoulder Level",
          [poor     |-> "Significant shoulder imbalance detected",
           moderate |-> "Minor shoulder asymmetry",
           good     |-> "Shoulders are well balanced",
           correct  |-> "Shoulder blade squeezes and leveling exercises",
           maintain |-> "Continue regular stretching"]),
       Metric("hipLevel", a.hipLevel, FRONTAL_THRESHOLDS.HIP_LEVEL, "Hip Level",
          [poor     |-> "Hip imbalance may indicate pelvic tilt",
           moderate |-> "Slight hip asymmetry noted",
           good     |-> "Hips are level and balanced",
           correct  |-> "Hip flexor stretches and glute strengthening",
           maintain |-> "Maintain hip mobility with stretching"]),
       Metric("spineAlignment", a.spineAlignment, FRONTAL_THRESHOLDS.SPINE_ALIGNMENT,
          "Spine Alignment",
          [poor     |-> "Lateral spinal deviation requires attention",
           moderate |-> "Minor lateral spine shift detected",
           good     |-> "Spine alignment is optimal",
           correct  |-> "Core strengthening and lateral stretches",
           maintain |-> "Continue core maintenance exercises"]) >>

\* lateralMetrics with the thresholds of the frontal table.
lateralMetricsFrontalTable(a) ==
    << Metric("headForward", a.headForward, FRONTAL_THRESHOLDS.HEAD_TILT, "Head Forward",
          [poor     |-> "Forward head posture detected - may cause neck strain",
           moderate |-> "Slight forward head position",
           good     |-> "Excellent head alignment",
           correct  |-> "Chin tuck exercises, 10 reps x 3 sets daily",
           maintain |-> "Maintain current positioning"]),
       Metric("shoulderRound", a.shoulderRound, FRONTAL_THRESHOLDS.SHOULDER_LEVEL,
          "Shoulder Round",
          [poor     |-> "Rounded shoulders detected - kyphosis indicator",
           moderate |-> "Slight shoulder rounding",
           good     |-> "Good shoulder posture",
           correct  |-> "Chest stretches and upper back strengthening",
           maintain |-> "Continue postural exercises"]),
       Metric("pelvicTilt", a.pelvicTilt, FRONTAL_THRESHOLDS.HIP_LEVEL, "Pelvic Tilt",
          [poor     |-> "Significant pelvic tilt - may cause lower back issues",
           moderate |-> "Minor pelvic tilt noted",
           good     |-> "Pelvis is well aligned",
           correct  |-> "Hip flexor stretches and core stabilization",
           maintain |-> "Maintain pelvic mobility"]),
       Metric("spineCurve", a.spineCurve, FRONTAL_THRESHOLDS.SPINE_ALIGNMENT,
          "Spine Curve",
          [poor     |-> "Excessive spinal curvature detected",
           moderate |-> "Minor spinal curve noted",
           good     |-> "Healthy spinal curvature",
           correct  |-> "Core strengthening - focus on transverse abdominis",
           maintain |-> "Continue core maintenance exercises"]) >>

lateralMetrics(a) ==
    << Metric("headForward", a.headForward, LATERAL_THRESHOLDS.HEAD_FORWARD, "Head Forward",
          [poor     |-> "Forward head posture detected - may cause neck strain",
           moderate |-> "Slight forward head position",
           good     |-> "Excellent head alignment",
           correct  |-> "Chin tuck exercises, 10 reps x 3 sets daily",
           maintain |-> "Maintain current positioning"]),
       Metric("shoulderRound", a.shoulderRound, LATERAL_THRESHOLDS.SHOULDER_ROUND,
          "Shoulder Round",
          [poor     |-> "Rounded shoulders detected - kyphosis indicator",
           moderate |-> "Slight shoulder rounding",
           good     |-> "Good shoulder posture",
           correct  |-> "Chest stretches and upper back strengthening",
           maintain |-> "Continue postural exercises"]),
       Metric("pelvicTilt", a.pelvicTilt, LATERAL_THRESHOLDS.PELVIC_TILT, "Pelvic Tilt",
          [poor     |-> "Significant pelvic tilt - may cause lower back issues",
           moderate |-> "Minor pelvic tilt noted",
           good     |-> "Pelvis is well aligned",
           correct  |-> "Hip flexor stretches and core stabilization",
           maintain |-> "Maintain pelvic mobility"]),
       Metric("spineCurve", a.spineCurve, LATERAL_THRESHOLDS.SPINE_CURVE, "Spine Curve",
          [poor     |-> "Excessive spinal curvature detected",
           moderate |-> "Minor spinal curve noted",
           good     |-> "Healthy spinal curvature",
           correct  |-> "Core strengthening - focus on transverse abdominis",
           maintain |-> "Continue core maintenance exercises"]) >>

\* The result object of analyzeFrontal and analyzeLateral (timestamp: Date.now()
\* is left out).
Result(viewType, metrics) ==
    [kind |-> "analysis",
     viewType |-> viewType,
     metrics |-> metrics,
     overallScore |-> overallScoreOf(metrics),
     overallStatus |-> overallStatusOf(overallScoreOf(metrics))]

analyzeFrontal(landmarks) == Result("frontal", frontalMetrics(frontalAngles(landmarks)))

analyzeLateral(landmarks) == Result("lateral", lateralMetrics(lateralAngles(landmarks)))

\* analyzePosture that asks only for the landmarks the analysis reads.
analyzePostureNoGuard(landmarks) ==
    IF landmarks = NULL THEN NULL
    ELSE IF LengthOf(landmarks) <= LANDMARKS.RIGHT_KNEE THEN NULL
    ELSE IF detectViewType(landmarks) = "frontal" THEN analyzeFrontal(landmarks)
    ELSE analyzeLateral(landmarks)

analyzePosture(landmarks) ==
    IF landmarks = NULL THEN NULL
    ELSE IF LengthOf(landmarks) < FullPose THEN NULL
    ELSE IF detectViewType(landmarks) = "frontal" THEN analyzeFrontal(landmarks)
    ELSE analyzeLateral(landmarks)

\* ------------------------------------------------------------------------
\* SOAP note generator and skeleton drawing
\* ------------------------------------------------------------------------

\* generateOfflineSOAPNote with the two closing plan lines also at a score of 80.
generateOfflineSOAPNoteAt80(analysis) ==
    IF analysis = NULL THEN NULL
    ELSE
    LET metrics      == analysis.metrics
        overallScore == analysis.overallScore
        viewType     == analysis.viewType
        viewDescription ==
            IF viewType = "frontal" THEN "Frontal View - Symmetry Assessment"
            ELSE "Lateral View - Forward Posture Assessment"
        NotGood(m)   == m.status # "good"
        IsGood(m)    == m.status = "good"
        concerns     == SelectSeq(metrics, NotGood)
        normal       == SelectSeq(metrics, IsGood)
        findings     == [i \in 1 .. Len(concerns) |->
                            [label |-> concerns[i].label,
                             description |-> concerns[i].description,
                             value |-> concerns[i].value]]
        goodFindings == [i \in 1 .. Len(normal) |-> normal[i].label]
        recommendations ==
            [i \in 1 .. Len(metrics) |-> [n |-> i, text |-> metrics[i].recommendation]]
        boilerplate ==
            IF overallScore <= 80
            THEN << [n |-> Len(metrics) + 1,
                     text |-> "Ergonomic workstation review recommended"],
                    [n |-> Len(metrics) + 2,
                     text |-> IF overallScore >= 50
                              THEN "Follow-up posture assessment in 4-6 weeks"
                              ELSE "Follow-up posture assessment in 2-4 weeks"] >>
            ELSE << >>
    IN  [kind |-> "note",
         viewDescription |-> viewDescription,
         overallScore |-> overallScore,
         measurements |-> [i \in 1 .. Len(metrics) |->
                              [label |-> metrics[i].label,
                               value |-> metrics[i].value,
                               status |-> metrics[i].status]],
         findings |-> findings,
         goodFindings |-> goodFindings,
         assessment |->
            [viewType |-> viewType,
             text |-> IF overallScore >= 80
                      THEN "generally good alignment with minor areas for improvement"
                      ELSE IF overallScore >= 50
                      THEN "moderate postural deviations requiring attention"
                      ELSE "significant postural imbalances requiring intervention"],
         plan |-> recommendations \o boilerplate]

\* generateOfflineSOAPNote that lists only the poor metrics as concerns.
generateOfflineSOAPNotePoorOnly(analysis) ==
    IF analysis = NULL THEN NULL
    ELSE
    LET metrics      == analysis.metrics
        overallScore == analysis.overallScore
        viewType     == analysis.viewType
        viewDescription ==
            IF viewType = "frontal" THEN "Frontal View - Symmetry Assessment"
            ELSE "Lateral View - Forward Posture Assessment"
        NotGood(m)   == m.status = "poor"
        IsGood(m)    == m.status = "good"
        concerns     == SelectSeq(metrics, NotGood)
        normal       == SelectSeq(metrics, IsGood)
        findings     == [i \in 1 .. Len(concerns) |->
                            [label |-> concerns[i].label,
                             description |-> concerns[i].description,
                             value |-> concerns[i].value]]
        goodFindings == [i \in 1 .. Len(normal) |-> normal[i].label]
        recommendations ==
            [i \in 1 .. Len(metrics) |-> [n |-> i, text |-> metrics[i].recommendation]]
        boilerplate ==
            IF overallScore < 80
            THEN << [n |-> Len(metrics) + 1,
                     text |-> "Ergonomic workstation review recommended"],
                    [n |-> Len(metrics) + 2,
                     text |-> IF overallScore >= 50
                              THEN "Follow-up posture assessment in 4-6 weeks"
                              ELSE "Follow-up posture assessment in 2-4 weeks"] >>
            ELSE << >>
    IN  [kind |-> "note",
         viewDescription |-> viewDescription,
         overallScore |-> overallScore,
         measurements |-> [i \in 1 .. Len(metrics) |->
                              [label |-> metrics[i].label,
                               value |-> metrics[i].value,
                               status |-> metrics[i].status]],
         findings |-> findings,
         goodFindings |-> goodFindings,
         assessment |->
            [viewType |-> viewType,
             text |-> IF overallScore >= 80
                      THEN "generally good alignment with minor areas for improvement"
                      ELSE IF overallScore >= 50
                      THEN "moderate postural deviations requiring attention"
                      ELSE "significant postural imbalances requiring intervention"],
         plan |-> recommendations \o boilerplate]

\* The note as the record of the parts of the template that vary (the date is
\* left out).  An empty `findings` or `goodFindings` stands for the section
\* that the template leaves out.
generateOfflineSOAPNote(analysis) ==
    IF analysis = NULL THEN NULL
    ELSE
    LET metrics      == analysis.metrics
        overallScore == analysis.overallScore
        viewType     == analysis.viewType
        viewDescription ==
            IF viewType = "frontal" THEN "Frontal View - Symmetry Assessment"
            ELSE "Lateral View - Forward Posture Assessment"
        NotGood(m)   == m.status # "good"
        IsGood(m)    == m.status = "good"
        concerns     == SelectSeq(metrics, NotGood)
        normal       == SelectSeq(metrics, IsGood)
        findings     == [i \in 1 .. Len(concerns) |->
                            [label |-> concerns[i].label,
                             description |-> concerns[i].description,
                             value |-> concerns[i].value]]
        goodFindings == [i \in 1 .. Len(normal) |-> normal[i].label]
        recommendations ==
            [i \in 1 .. Len(metrics) |-> [n |-> i, text |-> metrics[i].recommendation]]
        boilerplate ==
            IF overallScore < 80
            THEN << [n |-> Len(metrics) + 1,
                     text |-> "Ergonomic workstation review recommended"],
                    [n |-> Len(metrics) + 2,
                     text |-> IF overallScore >= 50
                              THEN "Follow-up posture assessment in 4-6 weeks"
                              ELSE "Follow-up posture assessment in 2-4 weeks"] >>
            ELSE << >>
    IN  [kind |-> "note",
         viewDescription |-> viewDescription,
         overallScore |-> overallScore,
         measurements |-> [i \in 1 .. Len(metrics) |->
                              [label |-> metrics[i].label,
                               value |-> metrics[i].value,
                               status |-> metrics[i].status]],
         findings |-> findings,
         goodFindings |-> goodFindings,
         assessment |->
            [viewType |-> viewType,
             text |-> IF overallScore >= 80
                      THEN "generally good alignment with minor areas for improvement"
                      ELSE IF overallScore >= 50
                      THEN "moderate postural deviations requiring attention"
                      ELSE "significant postural imbalances requiring intervention"],
         plan |-> recommendations \o boilerplate]

\* A cleared canvas (ctx.clearRect over the whole canvas).
CLEAR == [kind |-> "clear"]

\* What the canvas shows after drawSkeleton(ctx, landmarks, analysis, width,
\* height): the connections and points with visibility > 0.5 and, with an
\* analysis, the reference line and the spine line in the colour of its
\* overallStatus; the canvas as it was when landmarks are absent or fewer
\* than 33.
drawSkeleton(canvas, landmarks, analysis) ==
    IF landmarks = NULL \/ LengthOf(landmarks) < FullPose THEN canvas
    ELSE
    LET Visible(i) == At(landmarks, i).visibility > 50
    IN  [kind |-> "skeleton",
         connections |-> {i \in 1 .. Len(POSE_CONNECTIONS) :
                            /\ Visible(POSE_CONNECTIONS[i][1])
                            /\ Visible(POSE_CONNECTIONS[i][2])},
         points |-> {i \in 0 .. LengthOf(landmarks) - 1 : Visible(i)},
         spine |-> IF analysis # NULL THEN analysis.overallStatus ELSE "none"]

\* ------------------------------------------------------------------------
\* Landmark arrays of the detector
\* ------------------------------------------------------------------------

Point(x, y, z, hasZ, visibility) ==
    [x |-> x, y |-> y, z |-> z, hasZ |-> hasZ, visibility |-> visibility]

\* A landmark array of n entries.  The ears, shoulders, hips and knees are
\* pairs around a centre; g gives the half-extents (left = centre - half,
\* right = centre + half), the offsets of the centres, the depth of the
\* shoulders and the visibility of the left side.
Pose(n, g) ==
    LET ear      == [x |-> 100 + g.earOff, y |-> 26]
        shoulder == [x |-> 100, y |-> 60]
        hip      == [x |-> 100 + g.hipOff, y |-> 128]
        knee     == [x |-> 100 + g.hipOff + g.kneeOff, y |-> 162]
        at(i) ==
            CASE i = LANDMARKS.LEFT_EAR ->
                    Point(ear.x - g.earHalf[1], ear.y - g.earHalf[2], 0, g.hasZ, g.visLeft)
              [] i = LANDMARKS.RIGHT_EAR ->
                    Point(ear.x + g.earHalf[1], ear.y + g.earHalf[2], 0, g.hasZ, 90)
              [] i = LANDMARKS.LEFT_SHOULDER ->
                    Point(shoulder.x - g.shHalf[1], shoulder.y - g.shHalf[2],
                          g.zLeft, g.hasZ, g.visLeft)
              [] i = LANDMARKS.RIGHT_SHOULDER ->
                    Point(shoulder.x + g.shHalf[1], shoulder.y + g.shHalf[2],
                          0, g.hasZ, 90)
              [] i = LANDMARKS.LEFT_HIP ->
                    Point(hip.x - g.hipHalf[1], hip.y - g.hipHalf[2], 0, g.hasZ, g.visLeft)
              [] i = LANDMARKS.RIGHT_HIP ->
                    Point(hip.x + g.hipHalf[1], hip.y + g.hipHalf[2], 0, g.hasZ, 90)
              [] i = LANDMARKS.LEFT_KNEE ->
                    Point(knee.x - 5, knee.y, 0, g.hasZ, g.visLeft)
              [] i = LANDMARKS.RIGHT_KNEE ->
                    Point(knee.x + 5, knee.y, 0, g.hasZ, 90)
              [] OTHER -> Point(100, 6 * i, 0, g.hasZ, 90)
    IN  [kind |-> "landmarks", pts |-> [i \in 0 .. n - 1 |-> at(i)]]

\* A level, centred body seen from the front.
Upright ==
    [earHalf |-> <<17, 0>>, earOff |-> 0, shHalf |-> <<19, 0>>,
     hipHalf |-> <<19, 0>>, hipOff |-> 0, kneeOff |-> 0,
     zLeft |-> 0, hasZ |-> TRUE, visLeft |-> 90]

\* Frontal views: every combination of three tilts of the ears, the shoulders
\* and the hips and three shifts of the hips.  (3.01, 10.01 and 5.04 degrees
\* are among the angles.)
FrontalPoses ==
    {Pose(FullPose, [Upright EXCEPT !.earHalf = <<17, e>>, !.shHalf = <<19, s>>,
                                   !.hipHalf = <<19, h>>, !.hipOff = o]) :
        e \in {0, 2, 3}, s \in {0, 1, 3}, h \in {0, 1, 3}, o \in {0, 6, 17}}

\* Lateral views: narrow shoulders and hips, the head, the hips and the knees
\* shifted forward.
LateralPoses ==
    {Pose(FullPose, [Upright EXCEPT !.shHalf = <<7, 0>>, !.hipHalf = <<7, 0>>,
                                   !.earHalf = <<3, 0>>, !.earOff = f,
                                   !.hipOff = o, !.kneeOff = k]) :
        f \in {0, 6, 17}, o \in {0, 16, 20, 28, 34}, k \in {0, 6, 17}}

\* Shoulder widths around 0.08 (14, 16 and 18 units), with and without depth,
\* the left shoulder nearer or farther than the right one.
BoundaryPoses ==
    {Pose(FullPose, [Upright EXCEPT !.shHalf = <<w, 0>>, !.zLeft = z, !.hasZ = hz]) :
        w \in {7, 8, 9}, z \in {0, 30, -30}, hz \in BOOLEAN}

\* The left landmarks to the right of the right ones in the image (the
\* subject faces the camera), or hidden.
MirroredPoses ==
    {Pose(FullPose, [Upright EXCEPT !.earHalf = <<-17, e>>, !.shHalf = <<-19, s>>,
                                   !.hipHalf = <<-19, s>>, !.visLeft = v]) :
        e \in {0, 2}, s \in {0, 1}, v \in {90, 20}}

\* Incomplete arrays: no landmark, the knees missing, the ankles missing, all
\* the landmarks the analysis reads but fewer than 33.
ShortPoses ==
    {Pose(n, g) : n \in {0, 20, 27, FullPose - 1},
                  g \in {Upright, [Upright EXCEPT !.shHalf = <<7, 0>>]}}


\* Every landmark on one point.
CoincidentPoses ==
    {[kind |-> "landmarks",
      pts |-> [i \in 0 .. FullPose - 1 |-> Point(x, 60, 0, hz, 90)]] :
        x \in {0, 100}, hz \in BOOLEAN}

CompletePoses ==
    FrontalPoses \cup LateralPoses \cup BoundaryPoses \cup MirroredPoses
        \cup CoincidentPoses \cup {Pose(FullPose + 1, Upright)}

AllPoses == CompletePoses \cup ShortPoses

\* ------------------------------------------------------------------------
\* State
\* ------------------------------------------------------------------------

VARIABLES
    \* OfflinePostureAnalyzer: React state
    isLoading, error, analysis, soapNote, mode, isProcessing, loadProgress,
    \* OfflinePostureAnalyzer: refs, the overlay canvas, the position of
    \* loadMediaPipe, the images whose onload is awaited, the images sent to
    \* the detector, the calls of onAnalysisComplete
    poseRef, overlay, loadPc, imgLoading, sent, onAnalysisCompleteCalls,
    \* camera: getUserMedia requests awaited, whether videoRef.current.srcObject
    \* is set, the streams with running tracks that no video element holds
    cameraPending, videoSrcObject, unattachedStreams,
    \* window.lastPostureAnalysis
    lastPostureAnalysis,
    \* PostureAnalysis (remote): React state
    image, analyzing, results, remoteError,
    \* the posture findings of the last request of SOAPNotes or CarePack
    request,
    \* history: the analysis that completed last and wrote the shared slot
    lastCompleted,
    \* the pure functions applied to inputs (SpecFn)
    fn,
    \* service worker (public/sw.js): whether install has finished, the cache
    \* 'spineai-offline-v1', the fetch event being handled or, until the next
    \* one arrives, the one last answered with what its handler saw, the
    \* requests with a background fetch outstanding, the run of CACHE_MEDIAPIPE
    \* with the URLs it still fetches
    swState, swCache, swFetch, swRefresh, swPrecache,
    \* service worker: CACHE_MEDIAPIPE messages received, MEDIAPIPE_CACHED
    \* messages posted, those not yet delivered to the page
    swMessages, swNotified, swInbox,
    \* OfflinePostureAnalyzer: React state cacheStatus
    cacheStatus

offlineVars == <<isLoading, error, analysis, soapNote, mode, isProcessing, loadProgress,
                 poseRef, overlay, loadPc, imgLoading, sent, onAnalysisCompleteCalls>>

cameraVars == <<cameraPending, videoSrcObject, unattachedStreams>>

remoteVars == <<image, analyzing, results, remoteError>>

swVars == <<swState, swCache, swFetch, swRefresh, swPrecache,
           swMessages, swNotified, swInbox, cacheStatus>>

vars == <<offlineVars, cameraVars, remoteVars, lastPostureAnalysis, request,
          lastCompleted, fn, swVars>>

\* ------------------------------------------------------------------------
\* Bounds and inputs
\* ------------------------------------------------------------------------

\* Calls of onAnalysisComplete in one run, counting the images in flight
\* (awaiting onload or the detector) that may still cause one.
MaxCalls == 2

\* Camera streams awaited or running at one time.
MaxStreams == 2

\* What the detector reports: a level frontal body, a lateral body with the
\* hips and knees forward, 32 landmarks, or no landmarks.
DetectorResults ==
    {[poseLandmarks |-> l] :
        l \in {Pose(FullPose, Upright),
               Pose(FullPose, [Upright EXCEPT !.shHalf = <<7, 0>>, !.hipHalf = <<7, 0>>,
                                             !.hipOff = 28, !.kneeOff = 17]),
               Pose(FullPose - 1, Upright),
               NULL}}

\* data.choices[0].message.content of the remote analysis
Narratives == {[kind |-> "narrative", text |-> t] : t \in {"A", "B"}}

Message(text) == [kind |-> "error", message |-> text]

\* ------------------------------------------------------------------------
\* OfflinePostureAnalyzer
\* ------------------------------------------------------------------------


\* MainView of a component that would render the capture view over an error.
MainViewDespiteError == ~isLoading

\* The component renders the capture view (with the canvases and the file
\* input) unless it renders the loading view or the error view.
MainView == ~isLoading /\ error = NULL

\* overlayCanvasRef.current and canvasRef.current are set in the capture view.
CanvasMounted == MainView

\* videoRef.current is set when the capture view renders the video element.
VideoMounted == MainView /\ mode = "camera"

InitOffline ==
    /\ isLoading = TRUE
    /\ error = NULL
    /\ analysis = NULL
    /\ soapNote = NULL
    /\ mode = "upload"
    /\ isProcessing = FALSE
    /\ loadProgress = 0
    /\ poseRef = NULL
    /\ overlay = CLEAR
    /\ loadPc = "mount"
    /\ imgLoading = 0
    /\ sent = << >>
    /\ onAnalysisCompleteCalls = 0
    /\ cameraPending = 0
    /\ videoSrcObject = FALSE
    /\ unattachedStreams = 0

InitRemote ==
    /\ image = FALSE
    /\ analyzing = FALSE
    /\ results = NULL
    /\ remoteError = NULL


\* ------------------------------------------------------------------------
\* Service worker: assets, requests and responses
\* ------------------------------------------------------------------------

APP_ASSETS == <<"/", "/index.html", "/app.js">>

MEDIAPIPE_ASSETS ==
    <<"https://cdn.jsdelivr.net/npm/@mediapipe/camera_utils/camera_utils.js",
      "https://cdn.jsdelivr.net/npm/@mediapipe/drawing_utils/drawing_utils.js",
      "https://cdn.jsdelivr.net/npm/@mediapipe/pose/pose.js",
      "https://cdn.jsdelivr.net/npm/@mediapipe/pose/pose_solution_packed_assets.data",
      "https://cdn.jsdelivr.net/npm/@mediapipe/pose/pose_solution_simd_wasm_bin.wasm",
      "https://cdn.jsdelivr.net/npm/@mediapipe/pose/pose_solution_packed_assets_loader.js",
      "https://cdn.jsdelivr.net/npm/@mediapipe/pose/pose_solution_simd_wasm_bin.js",
      "https://cdn.jsdelivr.net/npm/@mediapipe/pose/pose_web.binarypb">>

\* The MediaPipe assets taken into the model: the first MaxAssets of the list.
MaxAssets == 2

\* CACHE_MEDIAPIPE messages in one run.
MaxMessages == 1

Assets == {MEDIAPIPE_ASSETS[i] : i \in 1 .. MaxAssets}

\* A page of the single-page application that is no file of the build.
PatientsPage == "/patients"

\* A request to another origin (the analysis API).
ApiUrl == "https://api.venice.ai/api/v1/chat/completions"

\* The keys of the cache: the requests the worker may store a response for.
CacheKeys == Assets \cup {APP_ASSETS[i] : i \in 1 .. Len(APP_ASSETS)} \cup {PatientsPage}

\* The fetch events: the MediaPipe scripts, the page and its script, a
\* navigation to a route of the application, a call of the API.
Requests ==
    {[url |-> a, mode |-> "no-cors"] : a \in Assets}
        \cup {[url |-> "/index.html", mode |-> "navigate"],
              [url |-> PatientsPage, mode |-> "navigate"],
              [url |-> "/app.js", mode |-> "no-cors"],
              [url |-> ApiUrl, mode |-> "cors"]}

Response(status, version) == [kind |-> "response", status |-> status, version |-> version]

\* fetch rejects (the network is down).
FAILED == [kind |-> "failed"]

\* What the network answers: the resource, a 404 page, or nothing. The CDN
\* serves a script in one of two versions.
NetworkOutcomes(url) ==
    {Response(200, 1), Response(404, 1), FAILED}
        \cup (IF url \in Assets THEN {Response(200, 2)} ELSE {})

Outcomes == UNION {NetworkOutcomes(req.url) : req \in Requests}

\* response.ok
Ok(response) == response.status >= 200 /\ response.status < 300

\* url.hostname === 'cdn.jsdelivr.net' && url.pathname.includes('@mediapipe')
IsMediaPipe(url) == url \in {MEDIAPIPE_ASSETS[i] : i \in 1 .. Len(MEDIAPIPE_ASSETS)}

\* url.origin === self.location.origin
IsSameOrigin(url) == url \in {"/", "/index.html", "/app.js", PatientsPage}

InitSw ==
    /\ swState = "installing"
    /\ swCache = [k \in CacheKeys |-> NULL]
    /\ swFetch = NULL
    /\ swRefresh = {}
    /\ swPrecache = NULL
    /\ swMessages = 0
    /\ swNotified = 0
    /\ swInbox = 0
    /\ cacheStatus = "unknown"

Init ==
    /\ InitOffline
    /\ InitRemote
    /\ lastPostureAnalysis = NULL
    /\ request = NULL
    /\ lastCompleted = NULL
    /\ fn = [op |-> "idle"]
    /\ InitSw

\* The error view replaces the capture view: a video element that holds a
\* stream is removed with the stream still running.
VideoUnmounts ==
    /\ videoSrcObject' = FALSE
    /\ unattachedStreams' = unattachedStreams
                               + (IF VideoMounted /\ videoSrcObject THEN 1 ELSE 0)

\* loadMediaPipe up to its first await: setLoadProgress(10), setLoadProgress(20).
loadMediaPipe ==
    /\ loadPc = "mount"
    /\ loadProgress' = 20
    /\ loadPc' = "camera_utils"
    /\ UNCHANGED <<isLoading, error, analysis, soapNote, mode, isProcessing, poseRef,
                   overlay, imgLoading, sent, onAnalysisCompleteCalls>>
    /\ UNCHANGED <<cameraVars, remoteVars, lastPostureAnalysis, request, lastCompleted, fn>>

\* An awaited script has loaded, or window.Pose has appeared.
loadScriptResolved ==
    /\ loadPc \in {"camera_utils", "drawing_utils", "pose", "windowPose"}
    /\ loadProgress' = CASE loadPc = "camera_utils" -> 40
                         [] loadPc = "drawing_utils" -> 60
                         [] loadPc = "pose" -> 80
                         [] OTHER -> loadProgress
    /\ loadPc' = CASE loadPc = "camera_utils" -> "drawing_utils"
                   [] loadPc = "drawing_utils" -> "pose"
                   [] loadPc = "pose" -> "windowPose"
                   [] OTHER -> "initialize"
    /\ UNCHANGED <<isLoading, error, analysis, soapNote, mode, isProcessing, poseRef,
                   overlay, imgLoading, sent, onAnalysisCompleteCalls>>
    /\ UNCHANGED <<cameraVars, remoteVars, lastPostureAnalysis, request, lastCompleted, fn>>


\* loadInitialized without poseRef.current = pose.
loadInitializedNoRef ==
    /\ loadPc = "initialize"
    /\ poseRef' = poseRef
    /\ loadProgress' = 100
    /\ isLoading' = FALSE
    /\ loadPc' = "done"
    /\ UNCHANGED <<error, analysis, soapNote, mode, isProcessing,
                   overlay, imgLoading, sent, onAnalysisCompleteCalls>>
    /\ UNCHANGED <<cameraVars, remoteVars, lastPostureAnalysis, request, lastCompleted, fn>>

\* pose.initialize() has resolved.
loadInitialized ==
    /\ loadPc = "initialize"
    /\ poseRef' = [kind |-> "pose"]
    /\ loadProgress' = 100
    /\ isLoading' = FALSE
    /\ loadPc' = "done"
    /\ UNCHANGED <<error, analysis, soapNote, mode, isProcessing,
                   overlay, imgLoading, sent, onAnalysisCompleteCalls>>
    /\ UNCHANGED <<cameraVars, remoteVars, lastPostureAnalysis, request, lastCompleted, fn>>

\* A script fails to load, new window.Pose throws or pose.initialize() rejects.
loadRejected ==
    /\ loadPc \in {"camera_utils", "drawing_utils", "pose", "initialize"}
    /\ error' = Message("Failed to load pose detection. Check your internet connection and refresh.")
    /\ isLoading' = FALSE
    /\ loadPc' = "failed"
    /\ UNCHANGED <<analysis, soapNote, mode, isProcessing, loadProgress, poseRef,
                   overlay, imgLoading, sent, onAnalysisCompleteCalls>>
    /\ UNCHANGED <<cameraVars, remoteVars, lastPostureAnalysis, request, lastCompleted, fn>>

\* publishResults without the write to window.lastPostureAnalysis.
publishResultsNoSlot(postureAnalysis) ==
    LET soap == generateOfflineSOAPNote(postureAnalysis)
    IN  /\ soapNote' = soap
        /\ lastPostureAnalysis' = lastPostureAnalysis
        /\ onAnalysisCompleteCalls' = onAnalysisCompleteCalls + 1
        /\ lastCompleted' = [by |-> "offline", analysis |-> postureAnalysis]


\* publishResults without the call of onAnalysisComplete.
publishResultsNoCall(postureAnalysis) ==
    LET soap == generateOfflineSOAPNote(postureAnalysis)
    IN  /\ soapNote' = soap
        /\ lastPostureAnalysis' = soap
        /\ onAnalysisCompleteCalls' = onAnalysisCompleteCalls
        /\ lastCompleted' = [by |-> "offline", analysis |-> postureAnalysis]

\* The branch of handlePoseResults for an analysis that is not null: the note
\* is generated, published, written to window.lastPostureAnalysis, and
\* onAnalysisComplete is called.
publishResults(postureAnalysis) ==
    LET soap == generateOfflineSOAPNote(postureAnalysis)
    IN  /\ soapNote' = soap
        /\ lastPostureAnalysis' = soap
        /\ onAnalysisCompleteCalls' = onAnalysisCompleteCalls + 1
        /\ lastCompleted' = [by |-> "offline", analysis |-> postureAnalysis]

\* The detector's result callback for the image at the head of the queue.
handlePoseResults(res) ==
    /\ sent # << >>
    /\ sent' = Tail(sent)
    /\ IF ~CanvasMounted
       THEN UNCHANGED <<analysis, overlay, soapNote, lastPostureAnalysis,
                        onAnalysisCompleteCalls, lastCompleted, isProcessing>>
       ELSE /\ isProcessing' = FALSE
            /\ IF res.poseLandmarks # NULL
               THEN LET postureAnalysis == analyzePosture(res.poseLandmarks)
                    IN  /\ analysis' = postureAnalysis
                        /\ overlay' = drawSkeleton(CLEAR, res.poseLandmarks, postureAnalysis)
                        /\ IF postureAnalysis # NULL
                           THEN publishResults(postureAnalysis)
                           ELSE UNCHANGED <<soapNote, lastPostureAnalysis,
                                            onAnalysisCompleteCalls, lastCompleted>>
               ELSE /\ overlay' = CLEAR
                    /\ UNCHANGED <<analysis, soapNote, lastPostureAnalysis,
                                   onAnalysisCompleteCalls, lastCompleted>>
    /\ UNCHANGED <<isLoading, error, mode, loadProgress, poseRef, loadPc, imgLoading>>
    /\ UNCHANGED <<cameraVars, remoteVars, request, fn>>

\* Room for one more image in flight.
Room == onAnalysisCompleteCalls + imgLoading + Len(sent) < MaxCalls

\* handleImageUpload that also empties window.lastPostureAnalysis.
handleImageUploadClearsSlot(file) ==
    /\ MainView
    /\ Room
    /\ IF ~file \/ poseRef = NULL
       THEN UNCHANGED <<isProcessing, analysis, soapNote, imgLoading, lastPostureAnalysis>>
       ELSE /\ isProcessing' = TRUE
            /\ analysis' = NULL
            /\ soapNote' = NULL
            /\ lastPostureAnalysis' = NULL
            /\ imgLoading' = imgLoading + 1
    /\ UNCHANGED <<isLoading, error, mode, loadProgress, poseRef, overlay, loadPc, sent,
                   onAnalysisCompleteCalls>>
    /\ UNCHANGED <<cameraVars, remoteVars, request, lastCompleted, fn>>

\* onChange of the file input, with or without a file.
handleImageUpload(file) ==
    /\ MainView
    /\ Room
    /\ IF ~file \/ poseRef = NULL
       THEN UNCHANGED <<isProcessing, analysis, soapNote, imgLoading>>
       ELSE /\ isProcessing' = TRUE
            /\ analysis' = NULL
            /\ soapNote' = NULL
            /\ imgLoading' = imgLoading + 1
    /\ UNCHANGED <<isLoading, error, mode, loadProgress, poseRef, overlay, loadPc, sent,
                   onAnalysisCompleteCalls>>
    /\ UNCHANGED <<cameraVars, remoteVars, lastPostureAnalysis, request, lastCompleted, fn>>

\* img.onload: the canvases are sized (which clears them), the image is drawn
\* and sent to the detector.  Without the canvases the handler throws at
\* canvas.width.
imgOnload ==
    /\ imgLoading > 0
    /\ imgLoading' = imgLoading - 1
    /\ IF CanvasMounted
       THEN /\ overlay' = CLEAR
            /\ sent' = Append(sent, "image")
       ELSE UNCHANGED <<overlay, sent>>
    /\ UNCHANGED <<isLoading, error, analysis, soapNote, mode, isProcessing, loadProgress,
                   poseRef, loadPc, onAnalysisCompleteCalls>>
    /\ UNCHANGED <<cameraVars, remoteVars, lastPostureAnalysis, request, lastCompleted, fn>>

\* The file is no image: onload never fires (there is no onerror handler).
imgNeverLoads ==
    /\ imgLoading > 0
    /\ imgLoading' = imgLoading - 1
    /\ UNCHANGED <<isLoading, error, analysis, soapNote, mode, isProcessing, loadProgress,
                   poseRef, overlay, loadPc, sent, onAnalysisCompleteCalls>>
    /\ UNCHANGED <<cameraVars, remoteVars, lastPostureAnalysis, request, lastCompleted, fn>>

\* poseRef.current.send rejects: the catch of handleImageUpload or of
\* captureFromCamera.
sendRejected ==
    /\ sent # << >>
    /\ sent' = Tail(sent)
    /\ error' = IF Head(sent) = "image"
                THEN Message("Failed to analyze image. Try a clearer photo.")
                ELSE Message("Failed to analyze. Please try again.")
    /\ isProcessing' = FALSE
    /\ VideoUnmounts
    /\ UNCHANGED <<isLoading, analysis, soapNote, mode, loadProgress, poseRef, overlay,
                   loadPc, imgLoading, onAnalysisCompleteCalls>>
    /\ UNCHANGED cameraPending
    /\ UNCHANGED <<remoteVars, lastPostureAnalysis, request, lastCompleted, fn>>

\* The camera button in upload mode: startCamera up to its await of
\* getUserMedia.
startCamera ==
    /\ MainView
    /\ mode = "upload"
    /\ cameraPending + unattachedStreams + (IF videoSrcObject THEN 1 ELSE 0) < MaxStreams
    /\ cameraPending' = cameraPending + 1
    /\ UNCHANGED <<videoSrcObject, unattachedStreams>>
    /\ UNCHANGED <<offlineVars, remoteVars, lastPostureAnalysis, request, lastCompleted, fn>>

\* getUserMedia resolves with a new stream.  With a video element the
\* stream replaces its srcObject and is played (play may reject, and the catch
\* sets error); without one the stream is held by nothing.
getUserMediaResolved(played) ==
    /\ cameraPending > 0
    /\ cameraPending' = cameraPending - 1
    /\ IF VideoMounted
       THEN IF played
            THEN /\ videoSrcObject' = TRUE
                 /\ unattachedStreams' = unattachedStreams + (IF videoSrcObject THEN 1 ELSE 0)
                 /\ mode' = "camera"
                 /\ error' = error
            ELSE /\ videoSrcObject' = FALSE
                 /\ unattachedStreams' = unattachedStreams + 1
                                           + (IF videoSrcObject THEN 1 ELSE 0)
                 /\ mode' = mode
                 /\ error' = Message("Unable to access camera. Please check permissions.")
       ELSE /\ videoSrcObject' = videoSrcObject
            /\ unattachedStreams' = unattachedStreams + 1
            /\ mode' = "camera"
            /\ error' = error
    /\ UNCHANGED <<isLoading, analysis, soapNote, isProcessing, loadProgress, poseRef,
                   overlay, loadPc, imgLoading, sent, onAnalysisCompleteCalls>>
    /\ UNCHANGED <<remoteVars, lastPostureAnalysis, request, lastCompleted, fn>>

\* getUserMedia rejects.
getUserMediaRejected ==
    /\ cameraPending > 0
    /\ cameraPending' = cameraPending - 1
    /\ error' = Message("Unable to access camera. Please check permissions.")
    /\ VideoUnmounts
    /\ UNCHANGED <<isLoading, analysis, soapNote, mode, isProcessing, loadProgress, poseRef,
                   overlay, loadPc, imgLoading, sent, onAnalysisCompleteCalls>>
    /\ UNCHANGED <<remoteVars, lastPostureAnalysis, request, lastCompleted, fn>>

\* The camera button in camera mode.
captureFromCamera ==
    /\ MainView
    /\ mode = "camera"
    /\ Room
    /\ IF ~VideoMounted \/ poseRef = NULL
       THEN UNCHANGED <<isProcessing, analysis, soapNote, overlay, sent>>
       ELSE /\ isProcessing' = TRUE
            /\ analysis' = NULL
            /\ soapNote' = NULL
            /\ overlay' = CLEAR
            /\ sent' = Append(sent, "camera")
    /\ UNCHANGED <<isLoading, error, mode, loadProgress, poseRef, loadPc, imgLoading,
                   onAnalysisCompleteCalls>>
    /\ UNCHANGED <<cameraVars, remoteVars, lastPostureAnalysis, request, lastCompleted, fn>>

\* The Stop Camera button, and the first half of the Upload Photo button:
\* the tracks of the video element's stream are stopped, and in upload mode
\* the video element is not rendered.
stopCamera ==
    /\ MainView
    /\ videoSrcObject' = FALSE
    /\ mode' = "upload"
    /\ UNCHANGED <<cameraPending, unattachedStreams>>
    /\ UNCHANGED <<isLoading, error, analysis, soapNote, isProcessing, loadProgress, poseRef,
                   overlay, loadPc, imgLoading, sent, onAnalysisCompleteCalls>>
    /\ UNCHANGED <<remoteVars, lastPostureAnalysis, request, lastCompleted, fn>>

\* ------------------------------------------------------------------------
\* PostureAnalysis (remote), SOAPNotes and CarePack
\* ------------------------------------------------------------------------

\* reader.onloadend of PostureAnalysis.handleImageUpload
remoteImageLoaded ==
    /\ image' = TRUE
    /\ results' = NULL
    /\ remoteError' = NULL
    /\ UNCHANGED analyzing
    /\ UNCHANGED <<offlineVars, cameraVars, lastPostureAnalysis, request, lastCompleted, fn>>

\* The Analyze button (disabled without an image and while analyzing):
\* handleAnalyze up to its await of fetch.
handleAnalyze ==
    /\ image
    /\ ~analyzing
    /\ analyzing' = TRUE
    /\ remoteError' = NULL
    /\ UNCHANGED <<image, results>>
    /\ UNCHANGED <<offlineVars, cameraVars, lastPostureAnalysis, request, lastCompleted, fn>>

\* handleAnalyzeResolved without the write to window.lastPostureAnalysis.
handleAnalyzeResolvedNoWrite(content) ==
    /\ analyzing
    /\ results' = content
    /\ lastCompleted' = [by |-> "remote", content |-> content]
    /\ analyzing' = FALSE
    /\ UNCHANGED <<image, remoteError>>
    /\ UNCHANGED <<offlineVars, cameraVars, lastPostureAnalysis, request, fn>>

\* The response parses: setResults(content), window.lastPostureAnalysis =
\* content, and the finally block.
handleAnalyzeResolved(content) ==
    /\ analyzing
    /\ results' = content
    /\ lastPostureAnalysis' = content
    /\ lastCompleted' = [by |-> "remote", content |-> content]
    /\ analyzing' = FALSE
    /\ UNCHANGED <<image, remoteError>>
    /\ UNCHANGED <<offlineVars, cameraVars, request, fn>>

\* fetch or parseApiResponse throws: the catch and the finally block.
handleAnalyzeRejected ==
    /\ analyzing
    /\ remoteError' = Message("API error")
    /\ analyzing' = FALSE
    /\ UNCHANGED <<image, results>>
    /\ UNCHANGED <<offlineVars, cameraVars, lastPostureAnalysis, request, lastCompleted, fn>>

\* generateSOAP and generateCarePack up to their await of fetch:
\* postureFindings = includePosture ? window.lastPostureAnalysis : null.
generateRequest(includePosture) ==
    /\ request' = [kind |-> "request",
                   postureFindings |-> IF includePosture THEN lastPostureAnalysis ELSE NULL]
    /\ UNCHANGED <<offlineVars, cameraVars, remoteVars, lastPostureAnalysis,
                   lastCompleted, fn>>


\* ------------------------------------------------------------------------
\* Specifications
\* ------------------------------------------------------------------------

Next ==
    /\ UNCHANGED swVars
    /\
       \/ loadMediaPipe
       \/ loadScriptResolved
       \/ loadInitialized
       \/ loadRejected
       \/ \E res \in DetectorResults : handlePoseResults(res)
       \/ \E file \in BOOLEAN : handleImageUpload(file)
       \/ imgOnload
       \/ imgNeverLoads
       \/ sendRejected
       \/ startCamera
       \/ \E played \in BOOLEAN : getUserMediaResolved(played)
       \/ getUserMediaRejected
       \/ captureFromCamera
       \/ stopCamera
       \/ remoteImageLoaded
       \/ handleAnalyze
       \/ \E content \in Narratives : handleAnalyzeResolved(content)
       \/ handleAnalyzeRejected
       \/ \E includePosture \in BOOLEAN : generateRequest(includePosture)

Spec == Init /\ [][Next]_vars

\* ------------------------------------------------------------------------
\* The pure functions applied to the inputs
\* ------------------------------------------------------------------------


\* The landmarks that analyzeFrontal, analyzeLateral and detectViewType
\* measure: ears, shoulders, hips and knees.
Referenced ==
    {LANDMARKS.LEFT_EAR, LANDMARKS.RIGHT_EAR, LANDMARKS.LEFT_SHOULDER,
     LANDMARKS.RIGHT_SHOULDER, LANDMARKS.LEFT_HIP, LANDMARKS.RIGHT_HIP,
     LANDMARKS.LEFT_KNEE, LANDMARKS.RIGHT_KNEE}

\* The same body reported differently by the detector: visibility v
\* everywhere, depth z on the left landmarks (or no depth at all), every
\* landmark that is not measured moved by d, and `extra` more landmarks.
Obscured(landmarks, v, z, hasZ, d, extra) ==
    LET n == LengthOf(landmarks)
        at(i) ==
            IF i >= n THEN Point(100, 100, z, hasZ, v)
            ELSE LET p == At(landmarks, i)
                 IN  IF i \in Referenced
                     THEN Point(p.x, p.y, IF i % 2 = 1 THEN z ELSE 0, hasZ, v)
                     ELSE Point(p.x + d, p.y + d, z, hasZ, v)
    IN  [kind |-> "landmarks", pts |-> [i \in 0 .. n + extra - 1 |-> at(i)]]

Variations(landmarks) ==
    {Obscured(landmarks, v, z, hasZ, d, extra) :
        v \in {90, 0}, z \in {0, 60, -60}, hasZ \in BOOLEAN, d \in {0, 4},
        extra \in {0, 1}}

\* End points of the segments measured by horizontalTilt and verticalOffset.
PointSamples ==
    {Point(x, y, 0, TRUE, 90) : x \in {90, 100, 128}, y \in {60, 62, 100}}

\* An angle of each status for a threshold entry.
Band(thresholds) ==
    {0, thresholds.good * MicroPerDeg + 1, thresholds.moderate * MicroPerDeg + 1}

\* Analysis results of every combination of statuses, in both views.
SampleAnalyses ==
    {Result("frontal",
            frontalMetrics([headTilt |-> a, shoulderLevel |-> b, hipLevel |-> c,
                            spineAlignment |-> d])) :
        a \in Band(FRONTAL_THRESHOLDS.HEAD_TILT),
        b \in Band(FRONTAL_THRESHOLDS.SHOULDER_LEVEL),
        c \in Band(FRONTAL_THRESHOLDS.HIP_LEVEL),
        d \in Band(FRONTAL_THRESHOLDS.SPINE_ALIGNMENT)}
    \cup
    {Result("lateral",
            lateralMetrics([headForward |-> a, shoulderRound |-> b, pelvicTilt |-> c,
                            spineCurve |-> d])) :
        a \in Band(LATERAL_THRESHOLDS.HEAD_FORWARD),
        b \in Band(LATERAL_THRESHOLDS.SHOULDER_ROUND),
        c \in Band(LATERAL_THRESHOLDS.PELVIC_TILT),
        d \in Band(LATERAL_THRESHOLDS.SPINE_CURVE)}

\* The texts of a metric entry, named by the branch that selects them.
BranchTexts ==
    [poor |-> "poor", moderate |-> "moderate", good |-> "good",
     correct |-> "correct", maintain |-> "maintain"]

ThresholdEntries ==
    {FRONTAL_THRESHOLDS[k] : k \in DOMAIN FRONTAL_THRESHOLDS}
        \cup {LATERAL_THRESHOLDS[k] : k \in DOMAIN LATERAL_THRESHOLDS}

\* Angles at, just below and just above every threshold, and the ends of the
\* range of horizontalTilt.
AngleSamples ==
    {0, 180 * MicroPerDeg}
        \cup {t * MicroPerDeg + d : t \in {3, 5, 7, 10, 12, 15, 18, 20, 25},
                                   d \in {-1, 0, 1}}

CallAnalyzePosture(landmarks) ==
    /\ fn.op = "idle"
    /\ fn' = [op |-> "analyzePosture",
              landmarks |-> landmarks,
              result |-> analyzePosture(landmarks),
              note |-> generateOfflineSOAPNote(analyzePosture(landmarks)),
              drawn |-> drawSkeleton(CLEAR, landmarks, analyzePosture(landmarks))]

CallGetStatus(value, larger, thresholds) ==
    /\ fn.op = "idle"
    /\ value <= larger
    /\ fn' = [op |-> "getStatus",
              value |-> value,
              larger |-> larger,
              thresholds |-> thresholds,
              status |-> getStatus(value, thresholds),
              statusOfLarger |-> getStatus(larger, thresholds)]

CallDetectViewType(landmarks) ==
    /\ fn.op = "idle"
    /\ LengthOf(landmarks) > LANDMARKS.RIGHT_SHOULDER
    /\ fn' = [op |-> "detectViewType",
              landmarks |-> landmarks,
              viewType |-> detectViewType(landmarks)]

\* The score aggregation of analyzeFrontal and analyzeLateral applied to four
\* metrics of the given statuses.
CallScore(statuses) ==
    /\ fn.op = "idle"
    /\ LET metrics == [i \in 1 .. 4 |-> [status |-> statuses[i]]]
       IN  fn' = [op |-> "score",
                  statuses |-> statuses,
                  overallScore |-> Result("frontal", metrics).overallScore,
                  overallStatus |-> Result("frontal", metrics).overallStatus]


CallHorizontalTilt(p1, p2) ==
    /\ fn.op = "idle"
    /\ fn' = [op |-> "horizontalTilt",
              p1 |-> p1,
              p2 |-> p2,
              tilt |-> horizontalTilt(p1, p2),
              swapped |-> horizontalTilt(p2, p1)]

CallVerticalOffset(topPoint, bottomPoint) ==
    /\ fn.op = "idle"
    /\ fn' = [op |-> "verticalOffset",
              topPoint |-> topPoint,
              bottomPoint |-> bottomPoint,
              offset |-> verticalOffset(topPoint, bottomPoint)]

\* One entry of the metrics object for an angle and a threshold entry.
CallMetric(angle, thresholds) ==
    /\ fn.op = "idle"
    /\ fn' = [op |-> "metric",
              angle |-> angle,
              thresholds |-> thresholds,
              metric |-> Metric("key", angle, thresholds, "Label", BranchTexts)]

CallGenerateOfflineSOAPNote(postureAnalysis) ==
    /\ fn.op = "idle"
    /\ fn' = [op |-> "generateOfflineSOAPNote",
              analysis |-> postureAnalysis,
              note |-> generateOfflineSOAPNote(postureAnalysis)]

\* analyzePosture applied to two reports of the same body.
CallAnalyzeTwice(landmarks, other) ==
    /\ fn.op = "idle"
    /\ fn' = [op |-> "analyzeTwice",
              landmarks |-> landmarks,
              other |-> other,
              result |-> analyzePosture(landmarks),
              otherResult |-> analyzePosture(other)]

Statuses == {"good", "moderate", "poor"}

NextFn ==
    /\ fn.op = "idle"
    /\ UNCHANGED <<offlineVars, cameraVars, remoteVars, lastPostureAnalysis, request,
                   lastCompleted, swVars>>
    /\
       \/ \E landmarks \in AllPoses \cup {NULL} : CallAnalyzePosture(landmarks)
       \/ \E landmarks \in AllPoses : CallDetectViewType(landmarks)
       \/ \E statuses \in [1 .. 4 -> Statuses] : CallScore(statuses)
       \/ \E value, larger \in AngleSamples, thresholds \in ThresholdEntries :
             CallGetStatus(value, larger, thresholds)
       \/ \E p1, p2 \in PointSamples : CallHorizontalTilt(p1, p2)
       \/ \E topPoint, bottomPoint \in PointSamples :
             CallVerticalOffset(topPoint, bottomPoint)
       \/ \E angle \in AngleSamples, thresholds \in ThresholdEntries :
             CallMetric(angle, thresholds)
       \/ \E postureAnalysis \in SampleAnalyses \cup {NULL} :
             CallGenerateOfflineSOAPNote(postureAnalysis)
       \/ \E landmarks \in CompletePoses :
             \E other \in Variations(landmarks) : CallAnalyzeTwice(landmarks, other)

SpecFn == Init /\ [][NextFn]_vars


\* ------------------------------------------------------------------------
\* Service worker (public/sw.js)
\* ------------------------------------------------------------------------

componentVars == <<offlineVars, cameraVars, remoteVars, lastPostureAnalysis, request,
                   lastCompleted, fn>>

\* What a page gets when respondWith is given a rejected promise.
Rejected(message) == [kind |-> "error", message |-> message]

\* caches.match resolved with undefined: respondWith has no Response to give
\* and the request fails with a network error.
UNDEFINED_RESPONSE == Rejected("respondWith: not a Response")

\* cache.put(request, response): no handler waits for the write, which is
\* taken to be done when the handler has called it.
Put(cache, key, response) == [cache EXCEPT ![key] = response]

\* The answer of an event is recorded with what the handler saw on its way.
Answered(req, branch, cached, network, index, answer) ==
    [request |-> req, branch |-> branch, pc |-> "answered", cached |-> cached,
     network |-> network, index |-> index, answer |-> answer]

\* install: cache.addAll(APP_ASSETS) stores all of the assets or, when one
\* of them cannot be fetched, none; the failure is caught and the worker is
\* installed all the same.
swInstall(ok) ==
    /\ swState = "installing"
    /\ swState' = "active"
    /\ swCache' = IF ok
                  THEN [k \in CacheKeys |->
                          IF \E i \in 1 .. Len(APP_ASSETS) : APP_ASSETS[i] = k
                          THEN Response(200, 1) ELSE swCache[k]]
                  ELSE swCache
    /\ UNCHANGED <<swFetch, swRefresh, swPrecache, swMessages, swNotified,
                   swInbox, cacheStatus>>

\* fetch listener, up to the first asynchronous call of its branch
swFetchEvent(req) ==
    /\ swState = "active"
    /\ IF swFetch = NULL THEN TRUE ELSE swFetch.pc = "answered"
    /\ swFetch' = IF IsMediaPipe(req.url)
                  THEN [request |-> req, branch |-> "cdn", pc |-> "match"]
                  ELSE IF IsSameOrigin(req.url)
                  THEN [request |-> req, branch |-> "app", pc |-> "network"]
                  ELSE [request |-> req, branch |-> "other", pc |-> "network"]
    /\ UNCHANGED <<swState, swCache, swRefresh, swPrecache, swMessages,
                   swNotified, swInbox, cacheStatus>>

\* MediaPipe branch: cache.match(event.request) resolved
swCdnMatch ==
    /\ swFetch # NULL
    /\ swFetch.pc = "match"
    /\ LET req    == swFetch.request
           cached == swCache[req.url]
       IN  IF cached # NULL
           THEN /\ swRefresh' = swRefresh \cup {req.url}
                /\ swFetch' = Answered(req, "cdn", cached, NULL, NULL, cached)
           ELSE /\ swFetch' = [swFetch EXCEPT !.pc = "network"]
                /\ UNCHANGED swRefresh
    /\ UNCHANGED <<swState, swCache, swPrecache, swMessages, swNotified,
                   swInbox, cacheStatus>>

\* The background refresh stores whatever the network answers.
swRefreshSettledAnyStatus(url, outcome) ==
    /\ url \in swRefresh
    /\ swRefresh' = swRefresh \ {url}
    /\ swCache' = IF outcome # FAILED
                  THEN Put(swCache, url, outcome)
                  ELSE swCache
    /\ UNCHANGED <<swState, swFetch, swPrecache, swMessages, swNotified,
                   swInbox, cacheStatus>>

\* MediaPipe branch, entry cached: the background fetch settled
swRefreshSettled(url, outcome) ==
    /\ url \in swRefresh
    /\ swRefresh' = swRefresh \ {url}
    /\ swCache' = IF outcome # FAILED /\ outcome.status = 200
                  THEN Put(swCache, url, outcome)
                  ELSE swCache
    /\ UNCHANGED <<swState, swFetch, swPrecache, swMessages, swNotified,
                   swInbox, cacheStatus>>

\* MediaPipe branch, nothing cached: fetch(event.request) settled
swCdnNetworkSettled(outcome) ==
    /\ swFetch # NULL
    /\ swFetch.branch = "cdn"
    /\ swFetch.pc = "network"
    /\ outcome \in NetworkOutcomes(swFetch.request.url)
    /\ LET req == swFetch.request
       IN  /\ swCache' = IF outcome # FAILED /\ outcome.status = 200
                         THEN Put(swCache, req.url, outcome)
                         ELSE swCache
           /\ swFetch' = Answered(req, "cdn", NULL, outcome, NULL,
                                   IF outcome = FAILED
                                   THEN Rejected("Failed to fetch")
                                   ELSE outcome)
    /\ UNCHANGED <<swState, swRefresh, swPrecache, swMessages, swNotified,
                   swInbox, cacheStatus>>

\* Same-origin branch: fetch(event.request) settled
swAppNetworkSettled(outcome) ==
    /\ swFetch # NULL
    /\ swFetch.branch = "app"
    /\ swFetch.pc = "network"
    /\ outcome \in NetworkOutcomes(swFetch.request.url)
    /\ LET req == swFetch.request
       IN  IF outcome # FAILED
           THEN /\ swCache' = IF outcome.status = 200
                              THEN Put(swCache, req.url, outcome)
                              ELSE swCache
                /\ swFetch' = Answered(req, "app", NULL, outcome, NULL, outcome)
           ELSE /\ swFetch' = [swFetch EXCEPT !.pc = "fallback"]
                /\ UNCHANGED swCache
    /\ UNCHANGED <<swState, swRefresh, swPrecache, swMessages, swNotified,
                   swInbox, cacheStatus>>

\* The fallback answers every request that is not cached with index.html.
swAppFallbackEveryMode ==
    /\ swFetch # NULL
    /\ swFetch.pc = "fallback"
    /\ LET req    == swFetch.request
           cached == swCache[req.url]
           index  == swCache["/index.html"]
       IN  swFetch' =
             IF cached # NULL
             THEN Answered(req, "app", cached, FAILED, NULL, cached)
             ELSE Answered(req, "app", NULL, FAILED, index,
                           IF index # NULL THEN index ELSE UNDEFINED_RESPONSE)
    /\ UNCHANGED <<swState, swCache, swRefresh, swPrecache, swMessages,
                   swNotified, swInbox, cacheStatus>>

\* Same-origin branch, network failed: caches.match(event.request) resolved
swAppFallback ==
    /\ swFetch # NULL
    /\ swFetch.pc = "fallback"
    /\ LET req    == swFetch.request
           cached == swCache[req.url]
           index  == swCache["/index.html"]
       IN  swFetch' =
             IF cached # NULL
             THEN Answered(req, "app", cached, FAILED, NULL, cached)
             ELSE IF req.mode = "navigate"
             THEN Answered(req, "app", NULL, FAILED, index,
                           IF index # NULL THEN index ELSE UNDEFINED_RESPONSE)
             ELSE Answered(req, "app", NULL, FAILED, NULL,
                           Rejected("No cached response available"))
    /\ UNCHANGED <<swState, swCache, swRefresh, swPrecache, swMessages,
                   swNotified, swInbox, cacheStatus>>

\* Other requests: event.respondWith(fetch(event.request))
swOtherNetworkSettled(outcome) ==
    /\ swFetch # NULL
    /\ swFetch.branch = "other"
    /\ swFetch.pc = "network"
    /\ outcome \in NetworkOutcomes(swFetch.request.url)
    /\ swFetch' = Answered(swFetch.request, "other", NULL, outcome, NULL,
                            IF outcome = FAILED
                            THEN Rejected("Failed to fetch")
                            ELSE outcome)
    /\ UNCHANGED <<swState, swCache, swRefresh, swPrecache, swMessages,
                   swNotified, swInbox, cacheStatus>>

\* message listener: CACHE_MEDIAPIPE starts one fetch per asset
swMessage ==
    /\ swState = "active"
    /\ swPrecache = NULL
    /\ swMessages < MaxMessages
    /\ swMessages' = swMessages + 1
    /\ swPrecache' = [kind |-> "run", pending |-> Assets]
    /\ UNCHANGED <<swState, swCache, swFetch, swRefresh, swNotified,
                   swInbox, cacheStatus>>

\* message listener: fetch(url) of one asset settled; a failure is logged
swPrecacheSettled(url, outcome) ==
    /\ swPrecache # NULL
    /\ url \in swPrecache.pending
    /\ swPrecache' = [swPrecache EXCEPT !.pending = @ \ {url}]
    /\ swCache' = IF outcome # FAILED /\ Ok(outcome)
                  THEN Put(swCache, url, outcome)
                  ELSE swCache
    /\ UNCHANGED <<swState, swFetch, swRefresh, swMessages, swNotified,
                   swInbox, cacheStatus>>

\* message listener: Promise.all resolved, MEDIAPIPE_CACHED is posted
swNotifyClients ==
    /\ swPrecache # NULL
    /\ swPrecache.pending = {}
    /\ swPrecache' = NULL
    /\ swNotified' = swNotified + 1
    /\ swInbox' = swInbox + 1
    /\ UNCHANGED <<swState, swCache, swFetch, swRefresh, swMessages,
                   cacheStatus>>

\* OfflinePostureAnalyzer handleMessage: MEDIAPIPE_CACHED
handleMessage ==
    /\ swInbox > 0
    /\ swInbox' = swInbox - 1
    /\ cacheStatus' = "cached"
    /\ UNCHANGED <<swState, swCache, swFetch, swRefresh, swPrecache,
                   swMessages, swNotified>>

NextSw ==
    /\ UNCHANGED componentVars
    /\
       \/ \E ok \in BOOLEAN : swInstall(ok)
       \/ \E req \in Requests : swFetchEvent(req)
       \/ swCdnMatch
       \/ \E url \in Assets : \E outcome \in NetworkOutcomes(url) : swRefreshSettled(url, outcome)
       \/ \E outcome \in Outcomes : swCdnNetworkSettled(outcome)
       \/ \E outcome \in Outcomes : swAppNetworkSettled(outcome)
       \/ swAppFallback
       \/ \E outcome \in Outcomes : swOtherNetworkSettled(outcome)
       \/ swMessage
       \/ \E url \in Assets : \E outcome \in NetworkOutcomes(url) : swPrecacheSettled(url, outcome)
       \/ swNotifyClients
       \/ handleMessage

SpecSw == Init /\ [][NextSw]_vars

\* ------------------------------------------------------------------------
\* Properties of the pure functions (under SpecFn)
\* ------------------------------------------------------------------------

\* The threshold entry that belongs to each metric key.
ThresholdsOf ==
    [headTilt       |-> FRONTAL_THRESHOLDS.HEAD_TILT,
     shoulderLevel  |-> FRONTAL_THRESHOLDS.SHOULDER_LEVEL,
     hipLevel       |-> FRONTAL_THRESHOLDS.HIP_LEVEL,
     spineAlignment |-> FRONTAL_THRESHOLDS.SPINE_ALIGNMENT,
     headForward    |-> LATERAL_THRESHOLDS.HEAD_FORWARD,
     shoulderRound  |-> LATERAL_THRESHOLDS.SHOULDER_ROUND,
     pelvicTilt     |-> LATERAL_THRESHOLDS.PELVIC_TILT,
     spineCurve     |-> LATERAL_THRESHOLDS.SPINE_CURVE]

FrontalKeys == <<"headTilt", "shoulderLevel", "hipLevel", "spineAlignment">>

LateralKeys == <<"headForward", "shoulderRound", "pelvicTilt", "spineCurve">>

\* The angles (micro-degrees) that the view of the landmarks measures.
AnglesOf(landmarks) ==
    IF detectViewType(landmarks) = "frontal" THEN frontalAngles(landmarks)
    ELSE lateralAngles(landmarks)

\* A tenth of a degree in micro-degrees.
Tenths(value) == value * 100000

Analysed == fn.op = "analyzePosture" /\ fn.result # NULL

Rank(status) == IF status = "good" THEN 0 ELSE IF status = "moderate" THEN 1 ELSE 2

\* C3 as stated: the status of every metric is the Status Classifier applied
\* to the reported one-decimal value.
C3_StatusOfReportedValue ==
    Analysed =>
        \A i \in 1 .. Len(fn.result.metrics) :
            LET m == fn.result.metrics[i]
            IN  m.status = getStatus(Tenths(m.value), ThresholdsOf[m.key])

\* C3 amended: the status of every metric is the Status Classifier applied to
\* the angle as measured, the value is that angle rounded to one decimal, and
\* the status differs from the classification of the value only when the
\* value equals a threshold and the status is the next worse band.
C3_StatusOfMeasuredAngle ==
    Analysed =>
        \A i \in 1 .. Len(fn.result.metrics) :
            LET m     == fn.result.metrics[i]
                t     == ThresholdsOf[m.key]
                angle == AnglesOf(fn.landmarks)[m.key]
            IN  /\ m.value = toFixed1(angle)
                /\ m.status = getStatus(angle, t)
                /\ m.status # getStatus(Tenths(m.value), t) =>
                      \/ m.value = 10 * t.good /\ m.status = "moderate"
                      \/ m.value = 10 * t.moderate /\ m.status = "poor"

\* A metric reported as 3.0 degrees against a good threshold of 3 with status
\* moderate.
C3_Witness ==
    /\ Analysed
    /\ \E i \in 1 .. Len(fn.result.metrics) :
          LET m == fn.result.metrics[i]
          IN  /\ m.value = 10 * ThresholdsOf[m.key].good
              /\ m.status = "moderate"

\* C4: getStatus is good iff value <= good, moderate iff good < value <=
\* moderate, poor otherwise, for the entries of both threshold tables; the
\* thresholds themselves belong to the lower band and a larger value never
\* gets a better status.
C4_GetStatusBands ==
    fn.op = "getStatus" =>
        LET good     == fn.thresholds.good * MicroPerDeg
            moderate == fn.thresholds.moderate * MicroPerDeg
        IN  /\ fn.status = "good" <=> fn.value <= good
            /\ fn.status = "moderate" <=> (good < fn.value /\ fn.value <= moderate)
            /\ fn.status = "poor" <=> fn.value > moderate
            /\ fn.status \in Statuses
            /\ Rank(fn.status) <= Rank(fn.statusOfLarger)

\* The moderate threshold itself is moderate and a micro-degree more is poor.
C4_Witness ==
    /\ fn.op = "getStatus"
    /\ fn.value = fn.thresholds.moderate * MicroPerDeg
    /\ fn.larger = fn.value + 1
    /\ fn.status = "moderate"
    /\ fn.statusOfLarger = "poor"

ShoulderWidth(landmarks) ==
    Abs(At(landmarks, LANDMARKS.LEFT_SHOULDER).x
            - At(landmarks, LANDMARKS.RIGHT_SHOULDER).x)

\* C5: detectViewType is frontal iff the shoulder width exceeds 0.08 (16
\* units), and every landmark array with the same two shoulder x-coordinates
\* gets the same view, whatever its z values.
C5_ViewByShoulderWidth ==
    fn.op = "detectViewType" =>
        /\ fn.viewType = "frontal" <=> ShoulderWidth(fn.landmarks) > 16
        /\ fn.viewType = "lateral" <=> ShoulderWidth(fn.landmarks) <= 16
        /\ \A other \in AllPoses :
              (/\ LengthOf(other) > LANDMARKS.RIGHT_SHOULDER
               /\ At(other, LANDMARKS.LEFT_SHOULDER).x
                     = At(fn.landmarks, LANDMARKS.LEFT_SHOULDER).x
               /\ At(other, LANDMARKS.RIGHT_SHOULDER).x
                     = At(fn.landmarks, LANDMARKS.RIGHT_SHOULDER).x)
              => detectViewType(other) = fn.viewType

\* A width of exactly 0.08, the shoulders at different depths: lateral.
C5_Witness ==
    /\ fn.op = "detectViewType"
    /\ ShoulderWidth(fn.landmarks) = 16
    /\ At(fn.landmarks, LANDMARKS.LEFT_SHOULDER).hasZ
    /\ At(fn.landmarks, LANDMARKS.LEFT_SHOULDER).z
          # At(fn.landmarks, LANDMARKS.RIGHT_SHOULDER).z
    /\ fn.viewType = "lateral"

\* C6: the result of at least 33 landmarks has the view of detectViewType,
\* the four metrics of that view in order, each classified with its entry of
\* that view's threshold table.
C6_MetricsOfDetectedView ==
    (fn.op = "analyzePosture" /\ fn.landmarks # NULL
        /\ LengthOf(fn.landmarks) >= 33) =>
        LET r    == fn.result
            keys == IF detectViewType(fn.landmarks) = "frontal"
                    THEN FrontalKeys ELSE LateralKeys
            table == IF detectViewType(fn.landmarks) = "frontal"
                     THEN {FRONTAL_THRESHOLDS[k] : k \in DOMAIN FRONTAL_THRESHOLDS}
                     ELSE {LATERAL_THRESHOLDS[k] : k \in DOMAIN LATERAL_THRESHOLDS}
        IN  /\ r # NULL
            /\ r.viewType = detectViewType(fn.landmarks)
            /\ Len(r.metrics) = 4
            /\ \A i \in 1 .. 4 :
                  /\ r.metrics[i].key = keys[i]
                  /\ ThresholdsOf[keys[i]] \in table
                  /\ r.metrics[i].status
                        = getStatus(AnglesOf(fn.landmarks)[keys[i]], ThresholdsOf[keys[i]])

\* A lateral result whose spine curve is poor by the frontal spine thresholds
\* and moderate by the lateral ones.
C6_Witness ==
    /\ Analysed
    /\ fn.result.viewType = "lateral"
    /\ fn.result.metrics[4].key = "spineCurve"
    /\ fn.result.metrics[4].value > 10 * FRONTAL_THRESHOLDS.SPINE_ALIGNMENT.moderate
    /\ fn.result.metrics[4].status = "moderate"

\* The number of metrics of a status among four statuses.
Count(statuses, s) == Cardinality({i \in 1 .. 4 : statuses[i] = s})

\* overallScore is the mean of the weights rounded to the nearest integer,
\* halves up, and overallStatus follows the score.
ScoreAgrees(statuses, overallScore, overallStatus) ==
    LET sum == 100 * Count(statuses, "good") + 60 * Count(statuses, "moderate")
                  + 30 * Count(statuses, "poor")
    IN  /\ 4 * overallScore - 2 <= sum
        /\ sum < 4 * overallScore + 2
        /\ overallStatus = "good" <=> overallScore >= 80
        /\ overallStatus = "moderate" <=> (50 <= overallScore /\ overallScore < 80)
        /\ overallStatus = "poor" <=> overallScore < 50
        /\ Count(statuses, "good") = 4 => overallScore = 100 /\ overallStatus = "good"
        /\ Count(statuses, "poor") = 4 => overallScore = 30 /\ overallStatus = "poor"
        /\ statuses = <<"good", "moderate", "good", "moderate">> =>
              overallScore = 80 /\ overallStatus = "good"

\* C7: for every combination of four statuses, and for every result of
\* analyzePosture, the overall score and status are as the weights say.
C7_ScoreAggregation ==
    /\ fn.op = "score" => ScoreAgrees(fn.statuses, fn.overallScore, fn.overallStatus)
    /\ Analysed =>
          ScoreAgrees([i \in 1 .. 4 |-> fn.result.metrics[i].status],
                      fn.result.overallScore, fn.result.overallStatus)

\* good, moderate, good, moderate: 80 and good.
C7_Witness ==
    /\ fn.op = "score"
    /\ fn.statuses = <<"good", "moderate", "good", "moderate">>
    /\ fn.overallScore = 80
    /\ fn.overallStatus = "good"

\* ------------------------------------------------------------------------
\* Properties of the components (under Spec)
\* ------------------------------------------------------------------------

\* The result carries no landmarks or fewer than 33.
NoDetection(res) ==
    res.poseLandmarks = NULL \/ LengthOf(res.poseLandmarks) < 33

\* The text that the analysis that completed last wrote to the shared slot.
TextOf(completed) ==
    IF completed = NULL THEN NULL
    ELSE IF completed.by = "offline" THEN generateOfflineSOAPNote(completed.analysis)
    ELSE completed.content

\* C1 as stated: when a result callback without landmarks, or with fewer than
\* 33, finishes, the analysis state is null and the overlay is cleared.
C1_NoDetectionClearsAnalysis ==
    [][\A res \in DetectorResults :
          (handlePoseResults(res) /\ NoDetection(res)) =>
              (analysis' = NULL /\ overlay' = CLEAR)]_vars

\* C2: analyzePosture is null for absent landmarks and for fewer than 33, and
\* a result callback with such landmarks generates no note, leaves
\* window.lastPostureAnalysis alone, does not call onAnalysisComplete and
\* draws no skeleton.
C2_ShortLandmarksGiveNothing ==
    [][/\ \A landmarks \in ShortPoses \cup {NULL} : analyzePosture(landmarks) = NULL
       /\ \A res \in DetectorResults :
             (handlePoseResults(res) /\ NoDetection(res)) =>
                 /\ soapNote' = soapNote
                 /\ lastPostureAnalysis' = lastPostureAnalysis
                 /\ onAnalysisCompleteCalls' = onAnalysisCompleteCalls
                 /\ overlay' = CLEAR \/ overlay' = overlay
                 /\ overlay'.kind = "skeleton" => overlay' = overlay
                 /\ (CanvasMounted /\ res.poseLandmarks # NULL) =>
                       (analysis' = NULL /\ overlay' = CLEAR)]_vars

\* After one analysis has completed, a second image has been answered without
\* a detection: no analysis, no note, one call, the slot still holds the first
\* note.
C2_Witness ==
    /\ onAnalysisCompleteCalls = 1
    /\ error = NULL
    /\ ~isProcessing
    /\ imgLoading = 0
    /\ sent = << >>
    /\ analysis = NULL
    /\ soapNote = NULL
    /\ overlay = CLEAR
    /\ lastPostureAnalysis # NULL
    /\ lastPostureAnalysis.kind = "note"

\* C8: a result callback that yields an analysis leaves the analysis state,
\* the soapNote state and window.lastPostureAnalysis consistent: soapNote is
\* the note of that analysis and the slot holds the same note.
C8_PublishedTogether ==
    [][\A res \in DetectorResults :
          (handlePoseResults(res) /\ CanvasMounted /\ ~NoDetection(res)) =>
              /\ analysis' = analyzePosture(res.poseLandmarks)
              /\ analysis' # NULL
              /\ soapNote' = generateOfflineSOAPNote(analysis')
              /\ soapNote' # NULL
              /\ lastPostureAnalysis' = soapNote']_vars

\* A lateral analysis is published after a remote narrative had been written
\* to the slot: the three hold the lateral analysis and its note.
C8_Witness ==
    /\ analysis # NULL
    /\ analysis.viewType = "lateral"
    /\ soapNote = generateOfflineSOAPNote(analysis)
    /\ lastPostureAnalysis = soapNote
    /\ results # NULL
    /\ lastCompleted.by = "offline"

\* C9: the slot holds the text of the analysis, offline or remote, that
\* completed last, and a request with includePosture on reads that text.
C9_LastWriterWins ==
    [][/\ lastPostureAnalysis' = TextOf(lastCompleted')
       /\ generateRequest(TRUE) => request'.postureFindings = TextOf(lastCompleted)]_vars

\* A remote narrative written after an offline note, and read by a request.
C9_Witness ==
    /\ onAnalysisCompleteCalls > 0
    /\ lastCompleted # NULL
    /\ lastCompleted.by = "remote"
    /\ lastPostureAnalysis = lastCompleted.content
    /\ request # NULL
    /\ request.postureFindings = lastCompleted.content

\* C10: the slot changes only in a result callback that yields an analysis
\* and in a remote analysis that succeeds, and once set it is never empty.
C10_SlotNeverCleared ==
    [][/\ lastPostureAnalysis' # lastPostureAnalysis =>
             \/ \E res \in DetectorResults :
                   handlePoseResults(res) /\ CanvasMounted /\ ~NoDetection(res)
             \/ \E content \in Narratives : handleAnalyzeResolved(content)
       /\ lastPostureAnalysis # NULL => lastPostureAnalysis' # NULL]_vars

\* The slot holds a note while a later image has been started and its send
\* has failed.
C10_Witness ==
    /\ lastPostureAnalysis # NULL
    /\ lastPostureAnalysis.kind = "note"
    /\ analysis = NULL
    /\ soapNote = NULL
    /\ error # NULL
    /\ mode = "upload"

\* ------------------------------------------------------------------------
\* Exposure of an earlier result (under Spec)
\* ------------------------------------------------------------------------

\* C11 as stated, its part about the result: while an image that was uploaded
\* or captured has not been answered by the detector, no analysis and no note
\* of an earlier image is exposed (analysis and soapNote are null).
C11_EarlierResultHidden ==
    (MainView /\ imgLoading + Len(sent) > 0) =>
        (analysis = NULL /\ soapNote = NULL)

\* ------------------------------------------------------------------------
\* Properties of the note and of the measurements (under SpecFn)
\* ------------------------------------------------------------------------

\* The analysis that the note of the state was generated from.
Noted ==
    /\ fn.op \in {"analyzePosture", "generateOfflineSOAPNote"}
    /\ fn.note # NULL

NotedAnalysis == IF fn.op = "analyzePosture" THEN fn.result ELSE fn.analysis

\* The indices of the metrics that are good, or not good.
GoodOnes(metrics) == {i \in 1 .. Len(metrics) : metrics[i].status = "good"}

Concerns(metrics) == {i \in 1 .. Len(metrics) : metrics[i].status # "good"}

\* The position of metric i among the metrics of the set S, in insertion order.
PlaceIn(S, i) == Cardinality({j \in S : j <= i})

\* C12: the plan holds the four recommendations numbered 1 to 4; for a score
\* below 80 it goes on with line 5 (ergonomic workstation review) and line 6
\* (follow-up in 4-6 weeks from a score of 50, in 2-4 weeks below), and for a
\* score of 80 or more it ends after the four.
C12_BoilerplatePlanLines ==
    Noted =>
        LET a    == NotedAnalysis
            plan == fn.note.plan
        IN  /\ Len(plan) >= 4
            /\ \A i \in 1 .. 4 : plan[i] = [n |-> i, text |-> a.metrics[i].recommendation]
            /\ a.overallScore >= 80 => Len(plan) = 4
            /\ a.overallScore < 80 =>
                  /\ Len(plan) = 6
                  /\ plan[5] = [n |-> 5, text |-> "Ergonomic workstation review recommended"]
                  /\ plan[6].n = 6
            /\ (50 <= a.overallScore /\ a.overallScore < 80) =>
                  plan[6].text = "Follow-up posture assessment in 4-6 weeks"
            /\ a.overallScore < 50 =>
                  plan[6].text = "Follow-up posture assessment in 2-4 weeks"

\* A score of 45: two closing lines, follow-up in 2-4 weeks.
C12_Witness ==
    /\ fn.op = "generateOfflineSOAPNote"
    /\ fn.analysis # NULL
    /\ fn.analysis.overallScore = 45
    /\ Len(fn.note.plan) = 6
    /\ fn.note.plan[6].text = "Follow-up posture assessment in 2-4 weeks"

\* C13: the metrics that are not good are the areas of concern and the good
\* ones are within normal limits, each group in insertion order; a group is
\* there iff it has a metric.
C13_FindingsPartition ==
    Noted =>
        LET metrics == NotedAnalysis.metrics
            note    == fn.note
        IN  /\ Len(note.findings) = Cardinality(Concerns(metrics))
            /\ Len(note.goodFindings) = Cardinality(GoodOnes(metrics))
            /\ \A i \in Concerns(metrics) :
                  note.findings[PlaceIn(Concerns(metrics), i)] =
                      [label |-> metrics[i].label,
                       description |-> metrics[i].description,
                       value |-> metrics[i].value]
            /\ \A i \in GoodOnes(metrics) :
                  note.goodFindings[PlaceIn(GoodOnes(metrics), i)] = metrics[i].label
            /\ \A i \in 1 .. Len(metrics) :
                  Cardinality({j \in 1 .. Len(note.findings) :
                                  note.findings[j].label = metrics[i].label})
                  + Cardinality({j \in 1 .. Len(note.goodFindings) :
                                    note.goodFindings[j] = metrics[i].label}) = 1
            /\ note.findings # << >> <=> \E i \in 1 .. Len(metrics) : metrics[i].status # "good"
            /\ note.goodFindings # << >> <=> \E i \in 1 .. Len(metrics) : metrics[i].status = "good"

\* Moderate, good, poor, good: two concerns and two normal findings.
C13_Witness ==
    /\ fn.op = "generateOfflineSOAPNote"
    /\ fn.analysis # NULL
    /\ fn.analysis.viewType = "frontal"
    /\ [i \in 1 .. 4 |-> fn.analysis.metrics[i].status] = <<"moderate", "good", "poor", "good">>
    /\ Len(fn.note.findings) = 2
    /\ fn.note.findings[1].label = "Head Tilt"
    /\ fn.note.findings[2].label = "Hip Level"
    /\ fn.note.goodFindings = <<"Shoulder Level", "Spine Alignment">>

\* C14: a frontal landmark set that measures 0 degrees four times scores 100
\* and good; its note lists the four labels within normal limits, has no
\* areas of concern and no closing plan lines.
C14_LevelFrontalScores100 ==
    (/\ Analysed
     /\ detectViewType(fn.landmarks) = "frontal"
     /\ \A k \in DOMAIN frontalAngles(fn.landmarks) : frontalAngles(fn.landmarks)[k] = 0) =>
        /\ fn.result.viewType = "frontal"
        /\ \A i \in 1 .. 4 : fn.result.metrics[i].value = 0
        /\ fn.result.overallScore = 100
        /\ fn.result.overallStatus = "good"
        /\ fn.note.goodFindings =
              <<"Head Tilt", "Shoulder Level", "Hip Level", "Spine Alignment">>
        /\ fn.note.findings = << >>
        /\ Len(fn.note.plan) = 4

C14_Witness ==
    /\ Analysed
    /\ fn.landmarks = Pose(FullPose, Upright)
    /\ fn.result.viewType = "frontal"
    /\ fn.result.overallScore = 100
    /\ Len(fn.note.goodFindings) = 4

\* C15 as stated: horizontalTilt of two level points with different x is 0
\* whichever of them has the larger x, horizontalTilt(p1, p2) equals
\* horizontalTilt(p2, p1), and level ears, shoulders and hips of a frontal
\* view are good.
C15_TiltIgnoresOrder ==
    /\ fn.op = "horizontalTilt" =>
          /\ (fn.p1.y = fn.p2.y /\ fn.p1.x # fn.p2.x) => fn.tilt = 0
          /\ fn.tilt = fn.swapped
    /\ (Analysed /\ fn.result.viewType = "frontal") =>
          \A i \in 1 .. 3 :
             LET left  == At(fn.landmarks, <<LANDMARKS.LEFT_EAR, LANDMARKS.LEFT_SHOULDER,
                                             LANDMARKS.LEFT_HIP>>[i])
                 right == At(fn.landmarks, <<LANDMARKS.RIGHT_EAR, LANDMARKS.RIGHT_SHOULDER,
                                             LANDMARKS.RIGHT_HIP>>[i])
             IN  (left.y = right.y /\ left.x # right.x) =>
                     fn.result.metrics[i].status = "good"

\* All the landmarks that the analysis measures are on one point.
Coincide(landmarks) ==
    \A i, j \in Referenced :
        /\ At(landmarks, i).x = At(landmarks, j).x
        /\ At(landmarks, i).y = At(landmarks, j).y

\* C16: horizontalTilt(p, p) and verticalOffset(p, p) are 0, and a landmark
\* set whose measured landmarks coincide is analysed with every value 0,
\* every status good and a score of 100.
C16_DegenerateIsZero ==
    /\ (fn.op = "horizontalTilt" /\ fn.p1 = fn.p2) => (fn.tilt = 0 /\ fn.swapped = 0)
    /\ (fn.op = "verticalOffset" /\ fn.topPoint = fn.bottomPoint) => fn.offset = 0
    /\ (fn.op = "analyzePosture" /\ fn.landmarks # NULL
           /\ LengthOf(fn.landmarks) >= 33 /\ Coincide(fn.landmarks)) =>
          /\ fn.result # NULL
          /\ \A i \in 1 .. 4 :
                /\ fn.result.metrics[i].value = 0
                /\ fn.result.metrics[i].status = "good"
          /\ fn.result.overallScore = 100
          /\ fn.result.overallStatus = "good"

C16_Witness ==
    /\ Analysed
    /\ fn.landmarks \in CoincidentPoses
    /\ fn.result.viewType = "lateral"
    /\ fn.result.metrics[1].value = 0
    /\ fn.result.overallScore = 100

\* C17: in a lateral result shoulderRound and spineCurve have one value, and
\* the status of spineCurve is never better than that of shoulderRound.
C17_SpineCurveIsShoulderRound ==
    (Analysed /\ fn.result.viewType = "lateral") =>
        LET shoulderRound == fn.result.metrics[2]
            spineCurve    == fn.result.metrics[4]
        IN  /\ shoulderRound.key = "shoulderRound"
            /\ spineCurve.key = "spineCurve"
            /\ spineCurve.value = shoulderRound.value
            /\ Rank(spineCurve.status) >= Rank(shoulderRound.status)

\* 13.2 degrees: shoulderRound good, spineCurve moderate.
C17_Witness ==
    /\ Analysed
    /\ fn.result.viewType = "lateral"
    /\ fn.result.metrics[2].value = 132
    /\ fn.result.metrics[2].status = "good"
    /\ fn.result.metrics[4].value = 132
    /\ fn.result.metrics[4].status = "moderate"

\* The metrics of a view when every angle is in the band of `status`.
MetricsAt(viewType, status) ==
    LET angle(t) == IF status = "good" THEN 0
                    ELSE IF status = "moderate" THEN t.good * MicroPerDeg + 1
                    ELSE t.moderate * MicroPerDeg + 1
    IN  IF viewType = "frontal"
        THEN frontalMetrics([k \in {"headTilt", "shoulderLevel", "hipLevel", "spineAlignment"}
                                |-> angle(ThresholdsOf[k])])
        ELSE lateralMetrics([k \in {"headForward", "shoulderRound", "pelvicTilt", "spineCurve"}
                                |-> angle(ThresholdsOf[k])])

\* C18: the description of a metric is the text of its status (three texts
\* that differ), and its recommendation is the corrective text unless the
\* status is good, when it is the maintenance text.
C18_TextsFollowStatus ==
    /\ fn.op = "metric" =>
          /\ fn.metric.description = BranchTexts[fn.metric.status]
          /\ fn.metric.recommendation =
                IF fn.metric.status = "good" THEN BranchTexts.maintain
                ELSE BranchTexts.correct
    /\ Analysed =>
          \A i \in 1 .. 4 :
             LET m    == fn.result.metrics[i]
                 text(status) == MetricsAt(fn.result.viewType, status)[i]
             IN  /\ \A status \in Statuses :
                       m.description = text(status).description <=> m.status = status
                 /\ m.recommendation = text("good").recommendation <=> m.status = "good"
                 /\ m.recommendation = text("poor").recommendation <=> m.status # "good"
                 /\ text("moderate").recommendation = text("poor").recommendation

\* An angle on the good threshold: good, with the texts of good.
C18_Witness ==
    /\ fn.op = "metric"
    /\ fn.angle = fn.thresholds.good * MicroPerDeg
    /\ fn.metric.status = "good"
    /\ fn.metric.description = BranchTexts.good
    /\ fn.metric.recommendation = BranchTexts.maintain

\* Two landmark arrays agree on x and y of the measured landmarks.
SameReferencedXY(l1, l2) ==
    \A i \in Referenced :
        /\ At(l1, i).x = At(l2, i).x
        /\ At(l1, i).y = At(l2, i).y

C20_ScoreRange ==
    /\ fn.op = "score" =>
          /\ fn.overallScore \in 30 .. 100
          /\ fn.overallStatus \in {"good", "moderate", "poor"}
    /\ (fn.op \in {"analyzePosture", "analyzeTwice"} /\ fn.result # NULL) =>
          /\ fn.result.overallScore \in 30 .. 100
          /\ fn.result.overallStatus \in {"good", "moderate", "poor"}
    /\ (fn.op = "generateOfflineSOAPNote" /\ fn.analysis # NULL) =>
          /\ fn.analysis.overallScore \in 30 .. 100
          /\ fn.analysis.overallStatus \in {"good", "moderate", "poor"}

\* Four poor metrics: the lowest score.
C20_Witness ==
    /\ fn.op = "score"
    /\ fn.statuses = <<"poor", "poor", "poor", "poor">>
    /\ fn.overallScore = 30
    /\ fn.overallStatus = "poor"

\* ------------------------------------------------------------------------
\* Properties of the offline analyzer's state (under Spec)
\* ------------------------------------------------------------------------

\* C21 as stated: every detector result callback, also one that arrives
\* while the loading or error view is shown, and every failed send ends with
\* isProcessing = false.
C21_CallbackEndsProcessing ==
    [][/\ \A res \in DetectorResults : handlePoseResults(res) => isProcessing' = FALSE
       /\ sendRejected => isProcessing' = FALSE]_vars

\* C22 as stated: soapNote is set only together with analysis, and then it is
\* the note generated from the current analysis.
C22_NoteOfCurrentAnalysis ==
    soapNote # NULL =>
        (analysis # NULL /\ soapNote = generateOfflineSOAPNote(analysis))

C24_ErrorIsAbsorbing ==
    [][error # NULL =>
          /\ error' # NULL
          /\ ~MainView'
          /\ imgLoading' <= imgLoading
          /\ Len(sent') <= Len(sent)
          /\ cameraPending' <= cameraPending
          /\ isProcessing' => isProcessing]_vars

\* A capture from the camera has failed: the error view over camera mode.
C24_Witness ==
    /\ error = Message("Failed to analyze. Please try again.")
    /\ ~isProcessing
    /\ mode = "camera"
    /\ loadPc = "done"

\* C25: loadProgress never decreases and is one of 0, 10, 20, 40, 60, 80,
\* 100; it is 100 only with the detector stored; the capture view is rendered
\* only with the detector stored; loading has ended exactly when isLoading is
\* false, and then the detector is stored or error is set.
C25_LoadingEndsReadyOrFailed ==
    [][/\ loadProgress' >= loadProgress
       /\ loadProgress' \in {0, 10, 20, 40, 60, 80, 100}
       /\ loadProgress' = 100 => poseRef' # NULL
       /\ MainView' => poseRef' # NULL
       /\ ~isLoading' <=> loadPc' \in {"done", "failed"}
       /\ ~isLoading' => (poseRef' # NULL \/ error' # NULL)
       /\ loadPc' = "failed" => (poseRef' = NULL /\ error' # NULL)]_vars

C25_Witness ==
    /\ loadProgress = 100
    /\ ~isLoading
    /\ error = NULL
    /\ poseRef # NULL
    /\ isProcessing

\* C27 as stated: every stream that startCamera acquired and that still runs
\* is the one on the video element, the video element holds a stream whenever
\* the camera view is shown, and in upload mode it holds none.
C27_NoStreamLeaked ==
    /\ unattachedStreams = 0
    /\ (MainView /\ mode = "camera") => videoSrcObject
    /\ mode = "upload" => ~videoSrcObject

\* ------------------------------------------------------------------------
\* Score bands by counts (under SpecFn)
\* ------------------------------------------------------------------------

\* C26: overallStatus is good exactly for three or four good metrics or two
\* good and two moderate ones, and poor exactly for three or four poor ones
\* or two poor and two moderate ones; three good and one poor give 83 and
\* good, and a note with one area of concern and no closing plan lines.
C26_StatusByCounts ==
    /\ fn.op = "score" =>
          LET g == Count(fn.statuses, "good")
              m == Count(fn.statuses, "moderate")
              p == Count(fn.statuses, "poor")
          IN  /\ fn.overallStatus = "good" <=> (g >= 3 \/ (g = 2 /\ m = 2))
              /\ fn.overallStatus = "poor" <=> (p >= 3 \/ (p = 2 /\ m = 2))
              /\ (g = 3 /\ p = 1) => (fn.overallScore = 83 /\ fn.overallStatus = "good")
    /\ (fn.op = "generateOfflineSOAPNote" /\ fn.analysis # NULL) =>
          LET statuses == [i \in 1 .. 4 |-> fn.analysis.metrics[i].status]
          IN  (Count(statuses, "good") = 3 /\ Count(statuses, "poor") = 1) =>
                  /\ fn.analysis.overallScore = 83
                  /\ fn.analysis.overallStatus = "good"
                  /\ Len(fn.note.findings) = 1
                  /\ Len(fn.note.plan) = 4

C26_Witness ==
    /\ fn.op = "generateOfflineSOAPNote"
    /\ fn.analysis # NULL
    /\ [i \in 1 .. 4 |-> fn.analysis.metrics[i].status] = <<"good", "good", "poor", "good">>
    /\ fn.analysis.overallScore = 83
    /\ fn.note.findings[1].label = "Hip Level"
    /\ Len(fn.note.plan) = 4

\* ------------------------------------------------------------------------
\* C28 - C30: the service worker
\* ------------------------------------------------------------------------

\* The fetch event last answered was handled by the given branch.
AnsweredBy(branch) ==
    /\ swFetch # NULL
    /\ swFetch.pc = "answered"
    /\ swFetch.branch = branch

\* C28: when the page has received MEDIAPIPE_CACHED and shows 'Offline
\* Ready', every MediaPipe asset is stored in the cache; the notification is
\* posted once per CACHE_MEDIAPIPE message, after all of its fetches have
\* settled.
C28_OfflineReadyMeansCached ==
    /\ cacheStatus = "cached" => \A url \in Assets : swCache[url] # NULL
    /\ swNotified = swMessages - (IF swPrecache # NULL THEN 1 ELSE 0)
    /\ swInbox <= swNotified

\* C29: a MediaPipe request with a cached entry is answered with that entry
\* before the network is heard of; without one it is answered with the
\* network's response, or fails when the network fails; the cache holds
\* responses of status 200 only for the MediaPipe assets.
C29_CacheFirst ==
    /\ \A url \in Assets : swCache[url] # NULL => swCache[url].status = 200
    /\ AnsweredBy("cdn") =>
         IF swFetch.cached # NULL
         THEN swFetch.answer = swFetch.cached /\ swFetch.network = NULL
         ELSE IF swFetch.network = FAILED
         THEN swFetch.answer.kind = "error"
         ELSE swFetch.answer = swFetch.network

\* A script was answered in its cached version and the background fetch has
\* since written the newer one to the cache.
C29_Witness ==
    /\ AnsweredBy("cdn")
    /\ swFetch.cached # NULL
    /\ swFetch.answer = Response(200, 1)
    /\ swFetch.request.url \notin swRefresh
    /\ swCache[swFetch.request.url] = Response(200, 2)

\* What the same-origin branch answers in every case but that of a
\* navigation that neither the network nor the cache can serve.
C30_AppAnswer ==
    \/ swFetch.network # FAILED /\ swFetch.answer = swFetch.network
    \/ /\ swFetch.network = FAILED
       /\ swFetch.cached # NULL
       /\ swFetch.answer = swFetch.cached
    \/ /\ swFetch.network = FAILED
       /\ swFetch.cached = NULL
       /\ swFetch.request.mode # "navigate"
       /\ swFetch.answer.kind = "error"

\* The navigation that neither the network nor the cache can serve.
C30_Unserved ==
    /\ swFetch.network = FAILED
    /\ swFetch.cached = NULL
    /\ swFetch.request.mode = "navigate"

C30_StoredOnly200 ==
    \A key \in CacheKeys \ Assets : swCache[key] # NULL => swCache[key].status = 200

\* C30 as stated: a same-origin request is answered with the network's
\* response when there is one; when the network fails, with its cached
\* response if there is one, else a navigation with the cached '/index.html'
\* and any other request with an error; only responses of status 200 are
\* stored.
C30_NetworkFirstIndexCached ==
    /\ C30_StoredOnly200
    /\ AnsweredBy("app") =>
         \/ C30_AppAnswer
         \/ /\ C30_Unserved
            /\ swFetch.answer.kind = "response"
            /\ swFetch.answer = swFetch.index

\* C30, amended: as above, but the navigation is answered with '/index.html'
\* when that is in the cache and fails when it is not.
C30_NetworkFirst ==
    /\ C30_StoredOnly200
    /\ AnsweredBy("app") =>
         \/ C30_AppAnswer
         \/ /\ C30_Unserved
            /\ IF swFetch.index # NULL
               THEN swFetch.answer = swFetch.index
               ELSE swFetch.answer.kind = "error"

\* Offline, a navigation to a route that was never fetched got index.html.
C30_Witness ==
    /\ AnsweredBy("app")
    /\ C30_Unserved
    /\ swFetch.request.url = PatientsPage
    /\ swFetch.answer = Response(200, 1)
====
